---- MODULE Spec2Model ----
(***************************************************************************)
(* Model of the Spock EMS / SMA integration: the polling cycle of          *)
(* SmaTelemetryCoordinator (coordinator.py), the master switch (switch.py) *)
(* and the battery command appliers (sma_writer.py, battery_control.py);   *)
(* the polling cycle of the Modbus SpockEnergyCoordinator, its register    *)
(* resolver (__init__.py) and the payload decoder (compat_payload.py).     *)
(*                                                                         *)
(* A register write is recorded as the attempt the code makes: the target  *)
(* address, the two 16-bit words handed to write_registers and what the    *)
(* device answered ("ok", "err" for a null/isError response, "raise" for   *)
(* an exception thrown by the Modbus client).                              *)
(***************************************************************************)
EXTENDS Integers, Sequences, FiniteSets, TLC

VARIABLES
    polling_enabled,  \* SmaTelemetryCoordinator.polling_enabled
    sensors,          \* SmaTelemetryCoordinator.sensors is initialised (truthy)
    data,             \* DataUpdateCoordinator.data, the cached snapshot
    pc,               \* position of the tick coroutine
    sensors_dict,     \* local of _async_update_data
    response,         \* what the POST of the current tick yielded
    reg,              \* device holding registers: address -> <<hi, lo>>
    call,             \* the writer call of the current tick / harness call
    writes,           \* register write attempts of the current tick / call
    fallbacks,        \* calls of _fallback_auto_mode in the current tick
    posts,            \* HTTP POSTs issued in the current tick
    tickErr,          \* error condition met by the current tick
    outcome,          \* how the last tick ended
    lastMode,         \* value of the last write attempt to 40151, 0 if none
    ticks,            \* ticks started so far
    reads,            \* pysma_api.read calls of the current tick
    returned,         \* what the last tick returned to the scheduler
    \* SpockEnergyCoordinator (__init__.py)
    is_enabled,       \* hass.data[DOMAIN][entry_id]["is_enabled"]
    mb_data,          \* DataUpdateCoordinator.data of SpockEnergyCoordinator
    mb_pc,            \* position of its tick coroutine
    mb_read,          \* _read_sma_telemetry of the current tick: none/ok/failed
    telemetry_data_numeric,   \* local of _async_update_data
    telemetry_data_for_api,   \* the payload handed to session.post
    mb_posts,         \* HTTP POSTs issued in the current tick
    mb_returned,      \* what its last tick returned to the scheduler
    mb_ticks,         \* its ticks started so far
    \* _try_read_register_block (__init__.py)
    rb_in,            \* arguments and the device the client talks to
    rb_issued,        \* reads issued on the client, in order
    rb_result,        \* what the call returned or raised
    \* BinaryPayloadDecoder (compat_payload.py)
    dec_src,          \* the value the registers were encoded from, if any
    dec,              \* the decoder object
    decoded,          \* result of the last decode call
    \* single calls of the pure functions and of the device operations
    nrm,              \* a call of _norm_u16 / _norm_u32 / _norm_s32
    mapped,           \* a call of _map_sma_to_spock
    rd,               \* a call of _read_sma_telemetry
    clients,          \* what the last operation did on its Modbus clients
    web,              \* a request to SpockApiView.post and its response
    split,            \* a call of _split_u32 / _split_s32
    rpc               \* a call of SmaApiClient._rpc_request

modbusVars == <<is_enabled, mb_data, mb_pc, mb_read, telemetry_data_numeric,
                telemetry_data_for_api, mb_posts, mb_returned, mb_ticks>>

blockVars == <<rb_in, rb_issued, rb_result>>

decoderVars == <<dec_src, dec, decoded>>

smaVars == <<polling_enabled, sensors, data, pc, sensors_dict, response, reg,
             call, writes, fallbacks, posts, tickErr, outcome, lastMode, ticks,
             reads, returned>>

callVars == <<nrm, mapped, rd, clients>>

probeVars == <<web, split, rpc>>

otherVars == <<modbusVars, blockVars, decoderVars, callVars, probeVars>>

vars == <<smaVars, otherVars>>

-----------------------------------------------------------------------------
(* Bounds *)

MaxTicks == 2

-----------------------------------------------------------------------------
(* sma_writer.py constants *)

REGISTER_POWER_SETPOINT == 40149
REGISTER_CONTROL_MODE == 40151
MANUAL_MODE_VALUE == 802
AUTO_MODE_VALUE == 803

Registers == {REGISTER_POWER_SETPOINT, REGISTER_CONTROL_MODE}

WriteResults == {"ok", "err", "raise"}

None == "None"

\* The tick ended by raising UpdateFailed.
Raised == "UpdateFailed"

-----------------------------------------------------------------------------
(* 32-bit encoders of the write path.  Python's  val & 0xFFFFFFFF,          *)
(* (val >> 16) & 0xFFFF  and  val & 0xFFFF  are floor division and          *)
(* non-negative remainder, as \div and % are.                              *)

\* Variant of _split_u32: the low word comes first.
_split_u32_LowFirst(val) == <<val % 65536, (val \div 65536) % 65536>>

_split_u32(val) == <<(val \div 65536) % 65536, val % 65536>>

\* For val < 0 the code adds 1 << 32 before masking: on the upper part
\* val >> 16 that is an addition of 65536, the low word is untouched.
_split_s32(val) ==
    IF val < 0
    THEN LET upper == (val \div 65536) + 65536
         IN  <<upper % 65536, val % 65536>>
    ELSE _split_u32(val)

\* The signed 32-bit value a register pair holds (how the device reads it).
S32Of(regs) ==
    IF regs[1] >= 32768
    THEN (regs[1] - 65536) * 65536 + regs[2]
    ELSE regs[1] * 65536 + regs[2]

Abs(x) == IF x < 0 THEN -x ELSE x

-----------------------------------------------------------------------------
(* SMABatteryWriter (sma_writer.py) *)

_write_u32(address, value, res) ==
    [adr |-> address, regs |-> _split_u32(value), res |-> res]

_write_s32(address, value, res) ==
    [adr |-> address, regs |-> _split_s32(value), res |-> res]

\* Variant of TryBlock: an errored acknowledgement aborts the block as an
\* exception does.
TryBlock_StopsOnError(w1, w2) ==
    IF w1.res # "ok" THEN <<w1>> ELSE <<w1, w2>>

\* try: w1; w2  except Exception: log -- a write that raises ends the block,
\* a write the device reports as errored is only logged.
TryBlock(w1, w2) ==
    IF w1.res = "raise" THEN <<w1>> ELSE <<w1, w2>>

\* Variant of set_auto_mode: the mode register is released first.
set_auto_mode_ModeFirst(conn, r1, r2) ==
    IF ~conn
    THEN <<>>
    ELSE TryBlock(_write_u32(REGISTER_CONTROL_MODE, AUTO_MODE_VALUE, r1),
                  _write_s32(REGISTER_POWER_SETPOINT, 0, r2))

\* conn: whether client.connect() succeeded in _open_client.
set_auto_mode(conn, r1, r2) ==
    IF ~conn
    THEN <<>>
    ELSE TryBlock(_write_s32(REGISTER_POWER_SETPOINT, 0, r1),
                  _write_u32(REGISTER_CONTROL_MODE, AUTO_MODE_VALUE, r2))

\* Variant of set_charge_watts: the setpoint keeps the sign of watts.
set_charge_watts_PositiveSetpoint(watts, conn, r1, r2) ==
    IF watts < 0
    THEN <<>>
    ELSE IF ~conn
    THEN <<>>
    ELSE TryBlock(_write_u32(REGISTER_CONTROL_MODE, MANUAL_MODE_VALUE, r1),
                  _write_s32(REGISTER_POWER_SETPOINT, Abs(watts), r2))


set_charge_watts(watts, conn, r1, r2) ==
    IF watts < 0
    THEN <<>>
    ELSE IF ~conn
    THEN <<>>
    ELSE TryBlock(_write_u32(REGISTER_CONTROL_MODE, MANUAL_MODE_VALUE, r1),
                  _write_s32(REGISTER_POWER_SETPOINT, -Abs(watts), r2))

\* Variant of set_discharge_watts: the setpoint is written before the mode.
set_discharge_watts_SetpointFirst(watts, conn, r1, r2) ==
    IF watts < 0
    THEN <<>>
    ELSE IF ~conn
    THEN <<>>
    ELSE TryBlock(_write_s32(REGISTER_POWER_SETPOINT, Abs(watts), r1),
                  _write_u32(REGISTER_CONTROL_MODE, MANUAL_MODE_VALUE, r2))


set_discharge_watts(watts, conn, r1, r2) ==
    IF watts < 0
    THEN <<>>
    ELSE IF ~conn
    THEN <<>>
    ELSE TryBlock(_write_u32(REGISTER_CONTROL_MODE, MANUAL_MODE_VALUE, r1),
                  _write_s32(REGISTER_POWER_SETPOINT, Abs(watts), r2))

\* A writer call as the coordinator issues it through async_add_executor_job.
WriterCall(fn, watts) == [fn |-> fn, watts |-> watts]

RunWriter(c, conn, r1, r2) ==
    CASE c.fn = "set_auto_mode"       -> set_auto_mode(conn, r1, r2)
      [] c.fn = "set_charge_watts"    -> set_charge_watts(c.watts, conn, r1, r2)
      [] c.fn = "set_discharge_watts" -> set_discharge_watts(c.watts, conn, r1, r2)

\* The device keeps what it acknowledged.
RECURSIVE DeviceAfter(_, _)
DeviceAfter(r, ws) ==
    IF ws = <<>>
    THEN r
    ELSE DeviceAfter(IF Head(ws).res = "ok"
                     THEN [r EXCEPT ![Head(ws).adr] = Head(ws).regs]
                     ELSE r,
                     Tail(ws))

\* Value of the last write attempt to the control-mode register.
RECURSIVE LastModeAfter(_, _)
LastModeAfter(m, ws) ==
    IF ws = <<>>
    THEN m
    ELSE LastModeAfter(IF Head(ws).adr = REGISTER_CONTROL_MODE
                       THEN S32Of(Head(ws).regs)
                       ELSE m,
                       Tail(ws))

-----------------------------------------------------------------------------
(* JSON values of the Spock response *)

\* operation_mode as received: a string, JNull when the key is missing or
\* null, JNumber when the value is a number instead of a string.
JNull == "<null>"
JNumber == "<number>"

OpModes == {JNull, JNumber, "", "auto", "AUTO", "charge", "Charge",
            "discharge", "idle"}

\* str.lower() on the mode strings above.
Lower(s) ==
    CASE s = "AUTO"   -> "auto"
      [] s = "Charge" -> "charge"
      [] OTHER        -> s

\* Magnitudes of the numeric action values, in watts.
Magnitudes == {0, 1, 500, 65536, 2147483647}

\* action as received: missing key, null, a non-numeric string, or a number
\* sign * (ip + fp / 10), possibly sent as a numeric string.
Actions ==
    {[t |-> k, sign |-> 1, ip |-> 0, fp |-> 0] : k \in {"missing", "null", "text"}}
    \cup
    [t : {"num", "numstr"}, sign : {1, -1}, ip : Magnitudes, fp : {0, 5}]

\* Variant of the conversion: the value is rounded to the nearest integer
\* instead of truncated.
IntOfAction_Rounded(a) ==
    IF a.t \in {"num", "numstr"}
    THEN a.sign * (IF a.fp >= 5 /\ a.ip < 2147483647 THEN a.ip + 1 ELSE a.ip)
    ELSE 0

\* int(float(raw_action)) with  except Exception: 0 ; int() truncates toward
\* zero, i.e. drops the fractional part.  A missing key defaults to 0.
IntOfAction(a) ==
    IF a.t \in {"num", "numstr"} THEN a.sign * a.ip ELSE 0

StatusValues == {"ok", "error", JNull}

SpockDicts == [status : StatusValues, operation_mode : OpModes, action : Actions]

NoData == [status |-> JNull, operation_mode |-> JNull,
           action |-> [t |-> "missing", sign |-> 1, ip |-> 0, fp |-> 0]]

NoResponse == [net |-> "none", status |-> 0, body |-> "none", data |-> NoData]

\* What the POST yields: a transport failure, or a status and a body that
\* is unparseable, a JSON value other than an object, or an object.
Responses ==
    {[net |-> n, status |-> 0, body |-> "none", data |-> NoData] :
        n \in {"ClientError", "Timeout"}}
    \cup
    {[net |-> "ok", status |-> st, body |-> "text", data |-> NoData] :
        st \in {403, 500}}
    \cup
    {[net |-> "ok", status |-> 200, body |-> b, data |-> NoData] :
        b \in {"badjson", "nondict"}}
    \cup
    {[net |-> "ok", status |-> 200, body |-> "dict", data |-> d] :
        d \in SpockDicts}

-----------------------------------------------------------------------------
(* SmaTelemetryCoordinator (coordinator.py) *)

\* Variant of PushRaises: the status code is not looked at.
PushRaises_StatusIgnored(resp) ==
    \/ resp.net # "ok"
    \/ resp.body \in {"badjson", "text"} /\ resp.status = 200

\* _async_push_to_spock raises: transport error, non-200, unparseable body
\* (lines 211-241).
PushRaises(resp) ==
    \/ resp.net # "ok"
    \/ resp.status # 200
    \/ resp.body = "badjson"

\* The exception _async_push_to_spock raises (lines 211-241): the transport
\* error, UpdateFailed with the status in its message for every status other
\* than 200, or the JSON error.
PushError(resp) ==
    IF resp.net # "ok"
    THEN resp.net
    ELSE IF resp.status # 200
    THEN "UpdateFailed: Error de API Spock (HTTP " \o ToString(resp.status)
         \o ")"
    ELSE "JSONDecodeError"

\* (data.get("operation_mode") or "").lower() raises AttributeError when the
\* value is truthy and not a string (line 252).
OpModeRaises(d) == d.operation_mode = JNumber

\* op_mode of _async_push_to_spock (line 252).
PushOpMode(d) ==
    IF d.operation_mode = JNull THEN "" ELSE Lower(d.operation_mode)

\* Variant of HasCommand: the status field is not looked at.
HasCommand_StatusIgnored(resp) ==
    /\ resp.body = "dict"
    /\ PushOpMode(resp.data) # ""

\* The response carries a command that is applied (lines 243-260).
HasCommand(resp) ==
    /\ resp.body = "dict"
    /\ resp.data.status = "ok"
    /\ PushOpMode(resp.data) # ""

\* Variant of _apply_spock_command: the magnitude test is  mag < 0 .
_apply_spock_command_ZeroAccepted(cmd) ==
    LET op_mode == IF cmd.operation_mode \in {JNull, ""}
                   THEN "auto"
                   ELSE Lower(cmd.operation_mode)
        mag == Abs(IntOfAction(cmd.action))
    IN  CASE op_mode = "auto" -> WriterCall("set_auto_mode", 0)
          [] op_mode = "charge" ->
                IF mag < 0
                THEN WriterCall("set_auto_mode", 0)
                ELSE WriterCall("set_charge_watts", mag)
          [] op_mode = "discharge" ->
                IF mag < 0
                THEN WriterCall("set_auto_mode", 0)
                ELSE WriterCall("set_discharge_watts", mag)
          [] OTHER -> WriterCall("set_auto_mode", 0)

\* _apply_spock_command: the writer method it runs and its argument.
_apply_spock_command(cmd) ==
    LET op_mode == IF cmd.operation_mode \in {JNull, ""}
                   THEN "auto"
                   ELSE Lower(cmd.operation_mode)
        mag == Abs(IntOfAction(cmd.action))
    IN  CASE op_mode = "auto" -> WriterCall("set_auto_mode", 0)
          [] op_mode = "charge" ->
                IF mag <= 0
                THEN WriterCall("set_auto_mode", 0)
                ELSE WriterCall("set_charge_watts", mag)
          [] op_mode = "discharge" ->
                IF mag <= 0
                THEN WriterCall("set_auto_mode", 0)
                ELSE WriterCall("set_discharge_watts", mag)
          [] OTHER -> WriterCall("set_auto_mode", 0)

\* _fallback_auto_mode
_fallback_auto_mode == WriterCall("set_auto_mode", 0)

SmaReadResults == {"ok", "SmaReadException", "SmaConnectionException",
                   "SmaAuthenticationException"}

\* Sensor readings of one PULL, kept abstract.
SensorDicts == {"readingA", "readingB"}

NoCall == [fn |-> "none", watts |-> 0, conn |-> FALSE]

DeviceFault(conn, ws) ==
    \/ ~conn
    \/ \E i \in 1..Len(ws) : ws[i].res # "ok"

CoordinatorInit ==
    /\ polling_enabled = TRUE
    /\ sensors = FALSE
    /\ data = None
    /\ pc = "idle"
    /\ sensors_dict = None
    /\ response = NoResponse
    /\ reg \in {[a \in Registers |->
                    IF a = REGISTER_CONTROL_MODE THEN _split_u32(m) ELSE <<0, 0>>] :
                m \in {MANUAL_MODE_VALUE, AUTO_MODE_VALUE}}
    /\ call = NoCall
    /\ writes = <<>>
    /\ fallbacks = 0
    /\ posts = 0
    /\ tickErr = {}
    /\ outcome = "none"
    /\ lastMode = 0
    /\ ticks = 0
    /\ reads = 0
    /\ returned = None

\* The dictionaries the tick handles: None, {}, or the eight keys.
Snapshot(soc, bp, pv, grid, ca, da, cap, tot) ==
    [t |-> "dict",
     bat_soc |-> soc, bat_power |-> bp, pv_power |-> pv, ongrid_power |-> grid,
     bat_charge_allowed |-> ca, bat_discharge_allowed |-> da,
     bat_capacity |-> cap, total_grid_output_energy |-> tot]

NoneSnapshot == [Snapshot(0, 0, 0, 0, FALSE, FALSE, 0, 0) EXCEPT !.t = "None"]

EmptyDict == [Snapshot(0, 0, 0, 0, FALSE, FALSE, 0, 0) EXCEPT !.t = "{}"]

RaisedUpdateFailed ==
    [Snapshot(0, 0, 0, 0, FALSE, FALSE, 0, 0) EXCEPT !.t = "UpdateFailed"]

\* No payload has been built yet.
NoPayload ==
    [plant_id |-> "", bat_soc |-> "", bat_power |-> "", pv_power |-> "",
     ongrid_power |-> "", bat_charge_allowed |-> "",
     bat_discharge_allowed |-> "", bat_capacity |-> "",
     total_grid_output_energy |-> ""]

\* No call has been made.
NoBlockResult ==
    [t |-> "none", kind |-> "", addr |-> 0, registers |-> <<>>,
     error |-> None, msg |-> [reg |-> 0, count |-> 0, unit |-> 0]]

\* SpockEnergyCoordinator.__init__ and async_setup_entry: polling enabled,
\* nothing cached.
ModbusInit ==
    /\ is_enabled = TRUE
    /\ mb_data = NoneSnapshot
    /\ mb_pc = "idle"
    /\ mb_read = "none"
    /\ telemetry_data_numeric = NoneSnapshot
    /\ telemetry_data_for_api = NoPayload
    /\ mb_posts = 0
    /\ mb_returned = NoneSnapshot
    /\ mb_ticks = 0

\* No call of _try_read_register_block has been made.
BlockIdle ==
    /\ rb_in = None
    /\ rb_issued = <<>>
    /\ rb_result = NoBlockResult

\* No decoder has been built.
DecoderIdle ==
    /\ dec_src = [given |-> FALSE, v |-> 0]
    /\ dec = [_buf |-> <<>>, _pos |-> 0, _byteorder |-> "Big", _wordorder |-> "Big"]
    /\ decoded = [kind |-> "none", err |-> None, value |-> None, at |-> 0,
                  after |-> 0]

\* No single call has been made.
NoNormCall ==
    [fn |-> "none", arg |-> 0, out |-> [some |-> FALSE, v |-> 0],
     done |-> FALSE]

NormIdle == nrm = NoNormCall

\* No request has been made and no helper called.
ProbesIdle ==
    /\ web = [done |-> FALSE]
    /\ split = [done |-> FALSE]
    /\ rpc = [pc |-> "none"]

CallsIdle ==
    /\ NormIdle
    /\ mapped = [done |-> FALSE]
    /\ rd = [done |-> FALSE]
    /\ clients = [op |-> "none", log |-> <<>>]

Init ==
    /\ CoordinatorInit
    /\ ModbusInit
    /\ BlockIdle
    /\ DecoderIdle
    /\ CallsIdle
    /\ ProbesIdle

\* async_initialize_sensors: the sensor list is obtained, or the call fails
\* and leaves it None.
async_initialize_sensors ==
    /\ pc = "idle"
    /\ ~sensors
    /\ sensors' = TRUE
    /\ UNCHANGED <<polling_enabled, data, pc, sensors_dict, response, reg, call,
                   writes, fallbacks, posts, tickErr, outcome, lastMode, ticks,
                   reads, returned>>
    /\ UNCHANGED otherVars

\* SpockSmaMasterSwitch.async_turn_on / async_turn_off
async_turn_on ==
    /\ ~polling_enabled
    /\ polling_enabled' = TRUE
    /\ UNCHANGED <<sensors, data, pc, sensors_dict, response, reg, call, writes,
                   fallbacks, posts, tickErr, outcome, lastMode, ticks, reads,
                   returned>>
    /\ UNCHANGED otherVars

\* A switch that hands the battery back to its internal control when it is
\* turned off.
async_turn_off_ReleasesBattery ==
    /\ polling_enabled
    /\ polling_enabled' = FALSE
    /\ reg' = [reg EXCEPT ![REGISTER_CONTROL_MODE] = _split_u32(AUTO_MODE_VALUE),
                          ![REGISTER_POWER_SETPOINT] = _split_s32(0)]
    /\ lastMode' = AUTO_MODE_VALUE
    /\ UNCHANGED <<sensors, data, pc, sensors_dict, response, call, writes,
                   fallbacks, posts, tickErr, outcome, ticks, reads,
                   returned>>
    /\ UNCHANGED otherVars

async_turn_off ==
    /\ polling_enabled
    /\ polling_enabled' = FALSE
    /\ UNCHANGED <<sensors, data, pc, sensors_dict, response, reg, call, writes,
                   fallbacks, posts, tickErr, outcome, lastMode, ticks, reads,
                   returned>>
    /\ UNCHANGED otherVars

\* _async_update_data, lines 114-123: the two gates of a tick.
TickStart ==
    /\ pc = "idle"
    /\ ticks < MaxTicks
    /\ ticks' = ticks + 1
    /\ writes' = <<>>
    /\ fallbacks' = 0
    /\ posts' = 0
    /\ reads' = 0
    /\ call' = NoCall
    /\ sensors_dict' = None
    /\ response' = NoResponse
    /\ IF ~polling_enabled
       THEN /\ outcome' = "skipped"
            /\ tickErr' = {}
            /\ pc' = "idle"
            /\ returned' = data
       ELSE IF ~sensors
       THEN /\ outcome' = "UpdateFailed"
            /\ tickErr' = {"sensors"}
            /\ pc' = "idle"
            /\ returned' = Raised
       ELSE /\ outcome' = "running"
            /\ tickErr' = {}
            /\ pc' = "read"
            /\ UNCHANGED returned
    /\ UNCHANGED <<polling_enabled, sensors, data, reg, lastMode>>
    /\ UNCHANGED otherVars

\* A variant of the PULL step that goes on to the push without reading.
PullSma_NotAwaited ==
    /\ pc = "read"
    /\ pc' = "post"
    /\ UNCHANGED <<polling_enabled, sensors, data, sensors_dict, response, reg,
                   call, writes, fallbacks, posts, tickErr, outcome, lastMode,
                   ticks, reads, returned>>
    /\ UNCHANGED otherVars

\* Paso 1, lines 125-136: PULL from SMA.
PullSma ==
    /\ pc = "read"
    /\ reads' = reads + 1
    /\ \E r \in SmaReadResults :
         IF r = "ok"
         THEN /\ \E sd \in SensorDicts : sensors_dict' = sd
              /\ pc' = "post"
              /\ UNCHANGED <<outcome, tickErr, returned>>
         ELSE /\ outcome' = "UpdateFailed"
              /\ tickErr' = tickErr \cup {"sma_read"}
              /\ pc' = "idle"
              /\ returned' = Raised
              /\ UNCHANGED sensors_dict
    /\ UNCHANGED <<polling_enabled, sensors, data, response, reg, call, writes,
                   fallbacks, posts, lastMode, ticks>>
    /\ UNCHANGED otherVars

\* Paso 2, _async_push_to_spock up to line 260: POST and read the response.
PushToSpock ==
    /\ pc = "post"
    /\ posts' = posts + 1
    /\ \E resp \in Responses :
         /\ response' = resp
         /\ IF PushRaises(resp)
            THEN /\ tickErr' = tickErr \cup {"push", PushError(resp)}
                 /\ pc' = "fallback"
                 /\ UNCHANGED <<outcome, data, returned>>
            ELSE IF resp.body = "dict" /\ OpModeRaises(resp.data)
            THEN /\ tickErr' = tickErr \cup {"bad_field"}
                 /\ pc' = "fallback"
                 /\ UNCHANGED <<outcome, data, returned>>
            ELSE IF ~HasCommand(resp)
            THEN /\ tickErr' = tickErr \cup {"no_command"}
                 /\ pc' = "idle"
                 /\ outcome' = "ok"
                 /\ data' = sensors_dict
                 /\ returned' = sensors_dict
            ELSE /\ pc' = "apply"
                 /\ UNCHANGED <<tickErr, outcome, data, returned>>
    /\ UNCHANGED <<polling_enabled, sensors, sensors_dict, reg, call, writes,
                   fallbacks, lastMode, ticks, reads>>
    /\ UNCHANGED otherVars

\* One executor job: the writer method runs against the device.
RunJob(c) ==
    \E conn \in BOOLEAN, r1 \in WriteResults, r2 \in WriteResults :
        LET ws == RunWriter(c, conn, r1, r2)
        IN  /\ call' = [fn |-> c.fn, watts |-> c.watts, conn |-> conn]
            /\ writes' = ws
            /\ reg' = DeviceAfter(reg, ws)
            /\ lastMode' = LastModeAfter(lastMode, ws)
            /\ tickErr' = IF DeviceFault(conn, ws)
                          THEN tickErr \cup {"device"}
                          ELSE tickErr

\* Paso 3, line 263: _apply_spock_command, then the tick returns.
ApplySpockCommand ==
    /\ pc = "apply"
    /\ RunJob(_apply_spock_command(response.data))
    /\ pc' = "idle"
    /\ outcome' = "ok"
    /\ data' = sensors_dict
    /\ returned' = sensors_dict
    /\ UNCHANGED <<polling_enabled, sensors, sensors_dict, response, fallbacks,
                   posts, ticks, reads>>
    /\ UNCHANGED otherVars

\* Lines 142-147: the except branch, then the tick returns.
FallbackAutoMode ==
    /\ pc = "fallback"
    /\ fallbacks' = fallbacks + 1
    /\ RunJob(_fallback_auto_mode)
    /\ pc' = "idle"
    /\ outcome' = "ok"
    /\ data' = sensors_dict
    /\ returned' = sensors_dict
    /\ UNCHANGED <<polling_enabled, sensors, sensors_dict, response, posts, ticks,
                   reads>>
    /\ UNCHANGED otherVars

Next ==
    \/ async_initialize_sensors
    \/ async_turn_on
    \/ async_turn_off
    \/ TickStart
    \/ PullSma
    \/ PushToSpock
    \/ ApplySpockCommand
    \/ FallbackAutoMode

Spec == Init /\ [][Next]_vars

-----------------------------------------------------------------------------
(* battery_control.py *)

REG_BATT_POWER_SETPOINT == 40149
REG_BATT_CONTROL_MODE == 40151
MODE_MANUAL == 802
MODE_AUTO == 803

\* The module-level _split_u32 / _split_s32 / _write_u32 / _write_s32.
bc_split_u32(val) == <<(val \div 65536) % 65536, val % 65536>>

bc_split_s32(val) ==
    IF val < 0
    THEN LET upper == (val \div 65536) + 65536
         IN  <<upper % 65536, val % 65536>>
    ELSE bc_split_u32(val)

bc_write_u32(address, value, res) ==
    [adr |-> address, regs |-> bc_split_u32(value), res |-> res]

bc_write_s32(address, value, res) ==
    [adr |-> address, regs |-> bc_split_s32(value), res |-> res]

\* Two writes in a row with no handler of their own: the second is reached
\* unless the first raises.
_set_auto_control_mode(r1, r2) ==
    LET w1 == bc_write_s32(REG_BATT_POWER_SETPOINT, 0, r1)
        w2 == bc_write_u32(REG_BATT_CONTROL_MODE, MODE_AUTO, r2)
    IN  IF r1 = "raise" THEN <<w1>> ELSE <<w1, w2>>

_set_manual_control_mode(r1) ==
    bc_write_u32(REG_BATT_CONTROL_MODE, MODE_MANUAL, r1)

_set_battery_setpoint(setpoint_w, r2) ==
    bc_write_s32(REG_BATT_POWER_SETPOINT, setpoint_w, r2)

\* The branches of _apply_operation_sync for charge / discharge, which
\* follow line 211: non-positive power falls back to auto, otherwise manual
\* mode is enabled and the signed setpoint written.
ApplyOperationPower(mode, power_w, r1, r2) ==
    IF power_w <= 0
    THEN _set_auto_control_mode(r1, r2)
    ELSE LET w1 == _set_manual_control_mode(r1)
             w2 == _set_battery_setpoint(
                       IF mode = "charge" THEN -power_w ELSE power_w, r2)
         IN  IF r1 = "raise" THEN <<w1>> ELSE <<w1, w2>>

\* _apply_operation_sync, lines 168-205.  operation_mode is a string or JNull.
_apply_operation_sync(operation_mode, power_w, conn, r1, r2) ==
    IF ~conn
    THEN <<>>
    ELSE LET mode == IF operation_mode = JNull THEN "" ELSE Lower(operation_mode)
         IN  IF mode \notin {"charge", "discharge", "auto"}
             THEN _set_auto_control_mode(r1, r2)
             ELSE IF mode = "auto"
             THEN _set_auto_control_mode(r1, r2)
             ELSE ApplyOperationPower(mode, power_w, r1, r2)

-----------------------------------------------------------------------------
(* Direct calls of the appliers, with every argument they accept *)

Watts == {-500, -1, 0, 1, 500}

\* One call per behaviour, on a device in either control mode.
HarnessFrame ==
    /\ UNCHANGED <<polling_enabled, sensors, data, pc, sensors_dict, fallbacks,
                   posts, ticks, reads, returned>>
    /\ UNCHANGED otherVars

\* writer.set_auto_mode()
CallSetAutoMode ==
    /\ outcome = "none"
    /\ RunJob(WriterCall("set_auto_mode", 0))
    /\ response' = NoResponse
    /\ outcome' = "direct"
    /\ HarnessFrame

\* writer.set_charge_watts(w)
CallSetChargeWatts ==
    /\ outcome = "none"
    /\ \E w \in Watts : RunJob(WriterCall("set_charge_watts", w))
    /\ response' = NoResponse
    /\ outcome' = "direct"
    /\ HarnessFrame

\* writer.set_discharge_watts(w)
CallSetDischargeWatts ==
    /\ outcome = "none"
    /\ \E w \in Watts : RunJob(WriterCall("set_discharge_watts", w))
    /\ response' = NoResponse
    /\ outcome' = "direct"
    /\ HarnessFrame

\* coordinator._apply_spock_command(spock_cmd) with any dict whose
\* operation_mode, when present, is a string.
CallApplySpockCommand ==
    /\ outcome = "none"
    /\ \E d \in SpockDicts :
         /\ d.operation_mode # JNumber
         /\ d.status = "ok"
         /\ response' = [net |-> "ok", status |-> 200, body |-> "dict", data |-> d]
         /\ RunJob(_apply_spock_command(d))
    /\ outcome' = "applied"
    /\ HarnessFrame

\* battery_control._apply_operation_sync(host, port, unit_id, mode, power_w);
\* the device acknowledges or rejects each write.
CallApplyOperationSync ==
    /\ outcome = "none"
    /\ \E m \in OpModes \ {JNumber}, w \in Watts, conn \in BOOLEAN,
          r1 \in {"ok", "err"}, r2 \in {"ok", "err"} :
         LET ws == _apply_operation_sync(m, w, conn, r1, r2)
         IN  /\ call' = [fn |-> m, watts |-> w, conn |-> conn]
             /\ writes' = ws
             /\ reg' = DeviceAfter(reg, ws)
             /\ lastMode' = LastModeAfter(lastMode, ws)
             /\ tickErr' = IF DeviceFault(conn, ws) THEN {"device"} ELSE {}
    /\ response' = NoResponse
    /\ outcome' = "bc"
    /\ HarnessFrame

NextWriter ==
    \/ CallSetAutoMode
    \/ CallSetChargeWatts
    \/ CallSetDischargeWatts
    \/ CallApplySpockCommand
    \/ CallApplyOperationSync

SpecWriter == Init /\ [][NextWriter]_vars

-----------------------------------------------------------------------------
(* compat_payload.py: BinaryPayloadDecoder *)

MaxRegs == 3

\* compat_pymodbus.Endian
Endians == {"Big", "Little", "Auto"}

_fmt_prefix(byteorder) ==
    IF byteorder = "Big" THEN ">"
    ELSE IF byteorder = "Little" THEN "<"
    ELSE ">"

\* The two bytes fromRegisters appends for one register.
RegisterBytes(r, byteorder) ==
    LET w == r % 65536
    IN  IF byteorder = "Big"
        THEN <<(w \div 256) % 256, w % 256>>
        ELSE <<w % 256, (w \div 256) % 256>>

RECURSIVE BufferOf(_, _)
BufferOf(registers, byteorder) ==
    IF registers = <<>>
    THEN <<>>
    ELSE RegisterBytes(Head(registers), byteorder)
         \o BufferOf(Tail(registers), byteorder)

fromRegisters(registers, byteorder, wordorder) ==
    [_buf |-> BufferOf(registers, byteorder), _pos |-> 0,
     _byteorder |-> byteorder, _wordorder |-> wordorder]

Min(a, b) == IF a < b THEN a ELSE b

\* A variant of _take that pads a short chunk with zero bytes.
_take_ZeroPadded(d, n) ==
    LET last == Min(Len(d._buf), d._pos + n)
        chunk == SubSeq(d._buf, d._pos + 1, last)
    IN  [err |-> None,
         chunk |-> chunk \o [i \in 1..(n - Len(chunk)) |-> 0],
         pos |-> d._pos + n]

\* _take: the slice, or IndexError("Decoder buffer underflow") with the
\* cursor left where it was.
_take(d, n) ==
    LET last == Min(Len(d._buf), d._pos + n)
        chunk == SubSeq(d._buf, d._pos + 1, last)
    IN  IF Len(chunk) # n
        THEN [err |-> "IndexError", chunk |-> <<>>, pos |-> d._pos]
        ELSE [err |-> None, chunk |-> chunk, pos |-> d._pos + n]

_reorder_words(d, bytes) ==
    IF d._wordorder = "Little" /\ Len(bytes) % 2 = 0
    THEN [i \in 1..Len(bytes) |->
             bytes[Len(bytes) - 2 * ((i - 1) \div 2) - 1 + ((i - 1) % 2)]]
    ELSE bytes

\* struct.unpack for the formats used.  A 32-bit quantity is held as the
\* pair <<upper 16 bits, lower 16 bits>>; the signed value is an integer.
UnpackH(prefix, b) ==
    IF prefix = ">" THEN b[1] * 256 + b[2] ELSE b[2] * 256 + b[1]

Unpackh(prefix, b) ==
    LET u == UnpackH(prefix, b)
    IN  IF u >= 32768 THEN u - 65536 ELSE u

UnpackI(prefix, b) ==
    IF prefix = ">"
    THEN <<b[1] * 256 + b[2], b[3] * 256 + b[4]>>
    ELSE <<b[4] * 256 + b[3], b[2] * 256 + b[1]>>

Unpacki(prefix, b) ==
    LET u == UnpackI(prefix, b)
    IN  IF u[1] >= 32768
        THEN (u[1] - 65536) * 65536 + u[2]
        ELSE u[1] * 65536 + u[2]

DecodeKinds == {"16bit_uint", "16bit_int", "32bit_uint", "32bit_int",
                "32bit_float"}

WidthOf(kind) == IF kind \in {"16bit_uint", "16bit_int"} THEN 2 ELSE 4

\* decode_16bit_uint / decode_16bit_int / decode_32bit_uint /
\* decode_32bit_int / decode_32bit_float: the value (the float as its bit
\* pattern) and the cursor afterwards, or the error _take raised.
Decode(d, kind) ==
    LET tk == _take(d, WidthOf(kind))
        prefix == _fmt_prefix(d._byteorder)
    IN  IF tk.err # None
        THEN [kind |-> kind, err |-> tk.err, value |-> None, pos |-> tk.pos]
        ELSE [kind |-> kind, err |-> None, pos |-> tk.pos,
              value |->
                 CASE kind = "16bit_uint" -> UnpackH(prefix, tk.chunk)
                   [] kind = "16bit_int" -> Unpackh(prefix, tk.chunk)
                   [] kind = "32bit_uint" ->
                        UnpackI(prefix, _reorder_words(d, tk.chunk))
                   [] kind = "32bit_int" ->
                        Unpacki(prefix, _reorder_words(d, tk.chunk))
                   [] kind = "32bit_float" ->
                        UnpackI(prefix, _reorder_words(d, tk.chunk))]

\* A skip that walks the cursor past the end of the buffer.
skip_bytes_Unclamped(d, n) == [d EXCEPT !._pos = d._pos + n]

\* skip_bytes: the cursor moves n bytes on, but stops at the end of the buffer.
skip_bytes(d, n) == [d EXCEPT !._pos = Min(Len(d._buf), d._pos + n)]

\* Register contents and values the decoder is exercised with.
RegWords == {0, 1, 4660, 65535}

RECURSIVE RegisterLists(_)
RegisterLists(n) ==
    IF n = 0
    THEN {<<>>}
    ELSE LET shorter == RegisterLists(n - 1)
         IN  shorter \cup {<<w>> \o l : w \in RegWords,
                                       l \in {x \in shorter : Len(x) = n - 1}}

S32Values == {-2147483647 - 1, -65536, -500, -1, 0, 1, 500, 65536, 2147483647}

SkipLengths == {1, 4}

\* A decoder is built over a register list; the list is either arbitrary or
\* the pair the write path produced for a signed 32-bit value.
DecoderInit ==
    /\ ProbesIdle
    /\ CallsIdle
    /\ CoordinatorInit
    /\ reg[REGISTER_CONTROL_MODE] = _split_u32(AUTO_MODE_VALUE)
    /\ ModbusInit
    /\ BlockIdle
    /\ decoded = [kind |-> "none", err |-> None, value |-> None, at |-> 0,
                  after |-> 0]
    /\ \E bo \in Endians, wo \in Endians :
         \/ /\ dec_src = [given |-> FALSE, v |-> 0]
            /\ \E regs \in RegisterLists(MaxRegs) :
                 dec = fromRegisters(regs, bo, wo)
         \/ \E v \in S32Values :
              /\ dec_src = [given |-> TRUE, v |-> v]
              /\ dec = fromRegisters(_split_s32(v), bo, wo)

DecodeCall(kind) ==
    LET r == Decode(dec, kind)
    IN  /\ decoded' = [kind |-> r.kind, err |-> r.err, value |-> r.value,
                       at |-> dec._pos, after |-> r.pos]
        /\ dec' = [dec EXCEPT !._pos = r.pos]
        /\ UNCHANGED <<dec_src, smaVars, modbusVars, blockVars, callVars, probeVars>>

decode_16bit_uint == DecodeCall("16bit_uint")

decode_16bit_int == DecodeCall("16bit_int")

decode_32bit_uint == DecodeCall("32bit_uint")

decode_32bit_int == DecodeCall("32bit_int")

decode_32bit_float == DecodeCall("32bit_float")

SkipBytes ==
    /\ \E n \in SkipLengths :
         /\ dec' = skip_bytes(dec, n)
         /\ decoded' = [kind |-> "skip", err |-> None, value |-> n,
                        at |-> dec._pos, after |-> skip_bytes(dec, n)._pos]
    /\ UNCHANGED <<dec_src, smaVars, modbusVars, blockVars, callVars, probeVars>>

NextDecoder ==
    \/ decode_16bit_uint
    \/ decode_16bit_int
    \/ decode_32bit_uint
    \/ decode_32bit_int
    \/ decode_32bit_float
    \/ SkipBytes

SpecDecoder == DecoderInit /\ [][NextDecoder]_vars

-----------------------------------------------------------------------------
(* __init__.py: _try_read_register_block *)

\* const.py
SMA_REG_BAT_POWER == 30843
SMA_REG_BAT_SOC == 30845
SMA_REG_BAT_CAPACITY == 30849
SMA_REG_GRID_POWER == 30867
SMA_REG_PV_POWER == 30775

\* INVALID_16
INVALID_16 == {65535}

\* The candidate list in another order.
attempts_InputFirst(r) ==
    << [kind |-> "input", addr |-> r - 30001],
       [kind |-> "holding", addr |-> r - 40001],
       [kind |-> "holding", addr |-> r - 40000],
       [kind |-> "input", addr |-> r - 30000] >>

\* attempts, lines 121-126
attempts(r) ==
    << [kind |-> "holding", addr |-> r - 40001],
       [kind |-> "holding", addr |-> r - 40000],
       [kind |-> "input", addr |-> r - 30001],
       [kind |-> "input", addr |-> r - 30000] >>

\* What the client yields for one read: an exception, a response whose
\* isError() is true, or a response carrying the registers.
ReadExc == [t |-> "exc", registers |-> <<>>]
ReadErr == [t |-> "err", registers |-> <<>>]

BlockWords == {7, 65535}

Blocks(count) == [1..count -> BlockWords]

ReadAnswers(count) ==
    {ReadExc, ReadErr} \cup {[t |-> "ok", registers |-> b] : b \in Blocks(count)}

AllSentinel(resp) ==
    \A i \in 1..Len(resp.registers) : resp.registers[i] \in INVALID_16

\* A variant of the acceptance test that also turns down a block made only
\* of the 16-bit sentinel.
Accepted_NotAllSentinel(resp) ==
    /\ resp.t = "ok"
    /\ ~AllSentinel(resp)

\* Lines 129-171: the response is returned unless the read raised or
\* isError() is true.
Accepted(resp) == resp.t = "ok"

\* return kind, addr, resp
ReturnBlock(a, resp) ==
    [t |-> "return", kind |-> a.kind, addr |-> a.addr,
     registers |-> resp.registers,
     error |-> None, msg |-> [reg |-> 0, count |-> 0, unit |-> 0]]

\* A variant of the exhausted case that hands back an empty block.
RaiseNoCombination_ReturnsEmpty(r, count, unit_id) ==
    [t |-> "return", kind |-> "input", addr |-> r - 30000,
     registers |-> <<>>,
     error |-> None, msg |-> [reg |-> 0, count |-> 0, unit |-> 0]]

\* Lines 173-176: ConnectionError whose message carries reg, count and the
\* unit id.
RaiseNoCombination(r, count, unit_id) ==
    [t |-> "raise", kind |-> "", addr |-> 0, registers |-> <<>>,
     error |-> "ConnectionError",
     msg |-> [reg |-> r, count |-> count, unit |-> unit_id]]

\* The loop of lines 128-171 from candidate i on; issued is the list of
\* reads made so far.
RECURSIVE TryFrom(_, _, _, _, _, _)
TryFrom(client, r, count, unit_id, i, issued) ==
    IF i > Len(attempts(r))
    THEN [issued |-> issued, result |-> RaiseNoCombination(r, count, unit_id)]
    ELSE LET a == attempts(r)[i]
         IN  IF a.addr < 0
             THEN TryFrom(client, r, count, unit_id, i + 1, issued)
             ELSE IF Accepted(client[i])
             THEN [issued |-> Append(issued, a),
                   result |-> ReturnBlock(a, client[i])]
             ELSE TryFrom(client, r, count, unit_id, i + 1, Append(issued, a))

_try_read_register_block(client, r, count, unit_id) ==
    TryFrom(client, r, count, unit_id, 1, <<>>)

\* Arguments the function is called with: the registers of const.py and a
\* register of the 4xxxx range; one or two registers; the unit id.
RegArgs == {SMA_REG_BAT_POWER, SMA_REG_BAT_SOC, SMA_REG_BAT_CAPACITY,
            SMA_REG_GRID_POWER, SMA_REG_PV_POWER, REGISTER_POWER_SETPOINT}

MaxCount == 2

UnitIds == {3}

\* The device behind the client: its answer to each candidate read.
Clients(count) == [1..4 -> ReadAnswers(count)]

ResolverInit ==
    /\ ProbesIdle
    /\ CallsIdle
    /\ CoordinatorInit
    /\ reg[REGISTER_CONTROL_MODE] = _split_u32(AUTO_MODE_VALUE)
    /\ ModbusInit
    /\ DecoderIdle
    /\ rb_issued = <<>>
    /\ rb_result = NoBlockResult
    /\ \E r \in RegArgs, count \in 1..MaxCount, u \in UnitIds :
         \E client \in Clients(count) :
            rb_in = [reg |-> r, count |-> count, unit_id |-> u,
                     client |-> client]

CallTryReadRegisterBlock ==
    /\ rb_result.t = "none"
    /\ LET out == _try_read_register_block(rb_in.client, rb_in.reg,
                                           rb_in.count, rb_in.unit_id)
       IN  /\ rb_issued' = out.issued
           /\ rb_result' = out.result
    /\ UNCHANGED <<rb_in, smaVars, modbusVars, decoderVars, callVars, probeVars>>

NextResolver == CallTryReadRegisterBlock

SpecResolver == ResolverInit /\ [][NextResolver]_vars

-----------------------------------------------------------------------------
(* __init__.py: SpockEnergyCoordinator *)

INVALID_32U == {<<65535, 65535>>, <<32768, 0>>}

INVALID_32S == {-1, -2147483647 - 1}

\* Optional integers: Python None or an int.
NoneInt == [some |-> FALSE, v |-> 0]

SomeInt(v) == [some |-> TRUE, v |-> v]

\* The integer held by the pair <<upper word, lower word>>.
IntOfU32(p) == p[1] * 65536 + p[2]

_norm_u16(v) == IF v \in INVALID_16 THEN NoneInt ELSE SomeInt(v)

\* An unsigned 32-bit value is held as its two words, as the decoder
\* yields it.
_norm_u32_AllOnesOnly(p) == IF p = <<65535, 65535>> THEN NoneInt ELSE SomeInt(p)

_norm_u32(p) == IF p \in INVALID_32U THEN NoneInt ELSE SomeInt(p)

\* The Python int of an optional unsigned 32-bit value.
IntOfOptU32(x) == IF x.some THEN SomeInt(IntOfU32(x.v)) ELSE NoneInt

_norm_s32(v) == IF v \in INVALID_32S THEN NoneInt ELSE SomeInt(v)

\* Values the normalisers are called with.
NormU16Args == {0, 1, 100, 255, 32767, 32768, 65534, 65535}

U32Words == {0, 1, 32767, 32768, 65534, 65535}

NormU32Args == U32Words \X U32Words

NormS32Args == {-2147483647 - 1, -2147483647, -65536, -2, -1, 0, 1, 65535,
                2147483646, 2147483647}

\* One call of one normaliser on one decoded value.
NormInit ==
    /\ ProbesIdle
    /\ CoordinatorInit
    /\ ModbusInit
    /\ BlockIdle
    /\ DecoderIdle
    /\ mapped = [done |-> FALSE]
    /\ rd = [done |-> FALSE]
    /\ clients = [op |-> "none", log |-> <<>>]
    /\ \/ \E v \in NormU16Args :
            nrm = [NoNormCall EXCEPT !.fn = "_norm_u16", !.arg = v]
       \/ \E p \in NormU32Args :
            nrm = [NoNormCall EXCEPT !.fn = "_norm_u32", !.arg = p]
       \/ \E v \in NormS32Args :
            nrm = [NoNormCall EXCEPT !.fn = "_norm_s32", !.arg = v]

NormFrame == UNCHANGED <<mapped, rd, clients, smaVars, modbusVars, blockVars,
                         decoderVars, probeVars>>

CallNormU16 ==
    /\ nrm.fn = "_norm_u16"
    /\ ~nrm.done
    /\ nrm' = [nrm EXCEPT !.out = _norm_u16(nrm.arg), !.done = TRUE]
    /\ NormFrame

CallNormU32 ==
    /\ nrm.fn = "_norm_u32"
    /\ ~nrm.done
    /\ nrm' = [nrm EXCEPT !.out = _norm_u32(nrm.arg), !.done = TRUE]
    /\ NormFrame

CallNormS32 ==
    /\ nrm.fn = "_norm_s32"
    /\ ~nrm.done
    /\ nrm' = [nrm EXCEPT !.out = _norm_s32(nrm.arg), !.done = TRUE]
    /\ NormFrame

NextNorm ==
    \/ CallNormU16
    \/ CallNormU32
    \/ CallNormS32

SpecNorm == NormInit /\ [][NextNorm]_vars

\* x or 0, and the "if x is None: x = 0" defaults
OrZero(x) == IF x.some THEN x.v ELSE 0

\* What _try_read_register_block yields for one block of the read: it
\* raises, or returns the registers.
BlockFails == [ok |-> FALSE, registers |-> <<>>]

BlockOf(registers) == [ok |-> TRUE, registers |-> registers]

\* Register pairs as the device holds 32-bit values for the reader's word
\* order Little: lower word first.
PowerPairs == {<<0, 0>>, <<500, 0>>, <<65036, 65535>>, <<65535, 65535>>,
               <<0, 32768>>}

SocPairs == {<<50, 0>>, <<200, 0>>, <<65535, 65535>>, <<0, 32768>>}

CapacityPairs == {<<10000, 0>>, <<65535, 65535>>}

GridPairs == {<<0, 0>>, <<65236, 65535>>, <<65535, 65535>>}

PvPairs == {<<1500, 0>>, <<0, 32768>>}

Soc16Words == {50, 200, 65535}

BatBlocks ==
    {BlockFails} \cup
    {BlockOf(p \o s \o <<0, 0>> \o c) :
        p \in PowerPairs, s \in SocPairs, c \in CapacityPairs}

Soc16Blocks == {BlockFails} \cup {BlockOf(<<w>>) : w \in Soc16Words}

GridBlocks == {BlockFails} \cup {BlockOf(p) : p \in GridPairs}

PvBlocks == {BlockFails} \cup {BlockOf(p) : p \in PvPairs}

\* Lines 339-352: the 16-bit state of charge, used when the 32-bit one is
\* invalid; any failure inside is swallowed.
SocFallback(bat_soc, soc16) ==
    IF bat_soc.some
    THEN bat_soc
    ELSE IF ~soc16.ok
    THEN bat_soc
    ELSE LET d == Decode(fromRegisters(soc16.registers, "Big", "Big"),
                         "16bit_uint")
             v == IF d.err = None THEN _norm_u16(d.value) ELSE NoneInt
         IN  IF v.some /\ 0 <= v.v /\ v.v <= 100 THEN v ELSE bat_soc

\* A reader for which the PV inverter is optional: its failed read leaves
\* pv_power at 0.
_read_sma_telemetry_PvOptional(bat, soc16diag, soc16, grid, pv) ==
    IF ~bat.ok \/ ~soc16diag \/ ~grid.ok
    THEN NoneSnapshot
    ELSE LET decoder_bat == fromRegisters(bat.registers, "Big", "Little")
             d1 == Decode(decoder_bat, "32bit_int")
             d2 == Decode([decoder_bat EXCEPT !._pos = d1.pos], "32bit_uint")
             sk == skip_bytes([decoder_bat EXCEPT !._pos = d2.pos], 4)
             d3 == Decode(sk, "32bit_uint")
             dg == Decode(fromRegisters(grid.registers, "Big", "Little"),
                          "32bit_int")
             dp == IF pv.ok
                   THEN Decode(fromRegisters(pv.registers, "Big", "Little"),
                               "32bit_int")
                   ELSE [kind |-> "32bit_int", err |-> None, value |-> 0,
                         pos |-> 0]
         IN  IF d1.err # None \/ dg.err # None \/ dp.err # None
             THEN NoneSnapshot
             ELSE IF d2.err # None \/ d3.err # None
             THEN NoneSnapshot
             ELSE Snapshot(OrZero(SocFallback(IntOfOptU32(_norm_u32(d2.value)), soc16)),
                           OrZero(_norm_s32(d1.value)),
                           OrZero(_norm_s32(dp.value)),
                           OrZero(_norm_s32(dg.value)),
                           TRUE, TRUE,
                           OrZero(IntOfOptU32(_norm_u32(d3.value))),
                           0)

\* _read_sma_telemetry, lines 260-427: None on any exception, else the
\* snapshot.  bat, grid and pv are the three blocks read; soc16diag tells
\* whether the 16-bit read of line 314 succeeded and soc16 is the block the
\* read of line 342 yields.
_read_sma_telemetry(bat, soc16diag, soc16, grid, pv) ==
    IF ~bat.ok \/ ~soc16diag \/ ~grid.ok \/ ~pv.ok
    THEN NoneSnapshot
    ELSE LET decoder_bat == fromRegisters(bat.registers, "Big", "Little")
             d1 == Decode(decoder_bat, "32bit_int")
             d2 == Decode([decoder_bat EXCEPT !._pos = d1.pos], "32bit_uint")
             sk == skip_bytes([decoder_bat EXCEPT !._pos = d2.pos], 4)
             d3 == Decode(sk, "32bit_uint")
             dg == Decode(fromRegisters(grid.registers, "Big", "Little"),
                          "32bit_int")
             dp == Decode(fromRegisters(pv.registers, "Big", "Little"),
                          "32bit_int")
         IN  IF d1.err # None \/ dg.err # None \/ dp.err # None
             THEN NoneSnapshot
             ELSE IF d2.err # None \/ d3.err # None
             THEN NoneSnapshot
             ELSE Snapshot(OrZero(SocFallback(IntOfOptU32(_norm_u32(d2.value)), soc16)),
                           OrZero(_norm_s32(d1.value)),
                           OrZero(_norm_s32(dp.value)),
                           OrZero(_norm_s32(dg.value)),
                           TRUE, TRUE,
                           OrZero(IntOfOptU32(_norm_u32(d3.value))),
                           0)

\* A variant of the substitution that leaves the two flags set.
SubstituteDefault_FlagsTrue(t) ==
    IF t.t = "None"
    THEN Snapshot(0, 0, 0, 0, TRUE, TRUE, 0, 0)
    ELSE t

\* Lines 494-508: a failed read is replaced by the zero snapshot.
SubstituteDefault(t) ==
    IF t.t = "None"
    THEN Snapshot(0, 0, 0, 0, FALSE, FALSE, 0, 0)
    ELSE t

\* str(bool).lower()
LowerStrOfBool(b) == IF b THEN "true" ELSE "false"

PlantId == 1

\* Lines 511-527: the payload for the API, every value a string.
FormatForApi(t) ==
    [plant_id |-> ToString(PlantId),
     bat_soc |-> ToString(t.bat_soc),
     bat_power |-> ToString(t.bat_power),
     pv_power |-> ToString(t.pv_power),
     ongrid_power |-> ToString(t.ongrid_power),
     bat_charge_allowed |-> LowerStrOfBool(t.bat_charge_allowed),
     bat_discharge_allowed |-> LowerStrOfBool(t.bat_discharge_allowed),
     bat_capacity |-> ToString(t.bat_capacity),
     total_grid_output_energy |-> ToString(t.total_grid_output_energy)]

\* Outcomes of the POST, lines 533-568.
ApiResponses == {"ClientError", "403", "500", "200 badjson", "200 nondict",
                 "200 dict"}

ModbusSpecInit ==
    /\ ProbesIdle
    /\ CallsIdle
    /\ CoordinatorInit
    /\ reg[REGISTER_CONTROL_MODE] = _split_u32(AUTO_MODE_VALUE)
    /\ ModbusInit
    /\ BlockIdle
    /\ DecoderIdle

\* The switch of the integration sets or clears the flag the tick reads at
\* line 475.
SetEnabled ==
    /\ is_enabled' = ~is_enabled
    /\ UNCHANGED <<mb_data, mb_pc, mb_read, telemetry_data_numeric,
                   telemetry_data_for_api, mb_posts, mb_returned, mb_ticks>>
    /\ UNCHANGED <<smaVars, blockVars, decoderVars, callVars, probeVars>>

\* _async_update_data, lines 472-485: the gate.
MbTickStart ==
    /\ mb_pc = "idle"
    /\ mb_ticks < MaxTicks
    /\ mb_ticks' = mb_ticks + 1
    /\ mb_posts' = 0
    /\ mb_read' = "none"
    /\ telemetry_data_numeric' = NoneSnapshot
    /\ telemetry_data_for_api' = NoPayload
    /\ IF ~is_enabled
       THEN /\ mb_returned' = IF mb_data.t = "None" THEN EmptyDict ELSE mb_data
            /\ mb_data' = mb_returned'
            /\ mb_pc' = "idle"
       ELSE /\ mb_pc' = "read"
            /\ UNCHANGED <<mb_returned, mb_data>>
    /\ UNCHANGED is_enabled
    /\ UNCHANGED <<smaVars, blockVars, decoderVars, callVars, probeVars>>

\* Lines 489-527: the Modbus read in the executor, the substitution and the
\* formatting.
MbReadTelemetry ==
    /\ mb_pc = "read"
    /\ \E bat \in BatBlocks, soc16diag \in BOOLEAN, soc16 \in Soc16Blocks,
          grid \in GridBlocks, pv \in PvBlocks :
         LET t == _read_sma_telemetry(bat, soc16diag, soc16, grid, pv)
         IN  /\ mb_read' = IF t.t = "None" THEN "failed" ELSE "ok"
             /\ telemetry_data_numeric' = SubstituteDefault(t)
             /\ telemetry_data_for_api' = FormatForApi(SubstituteDefault(t))
    /\ mb_pc' = "post"
    /\ UNCHANGED <<is_enabled, mb_data, mb_posts, mb_returned, mb_ticks>>
    /\ UNCHANGED <<smaVars, blockVars, decoderVars, callVars, probeVars>>

\* Lines 529-568: the POST; the numeric snapshot is returned on a 200 with
\* a JSON object, UpdateFailed raised otherwise.
MbPost ==
    /\ mb_pc = "post"
    /\ mb_posts' = mb_posts + 1
    /\ \E resp \in ApiResponses :
         IF resp = "200 dict"
         THEN /\ mb_returned' = telemetry_data_numeric
              /\ mb_data' = telemetry_data_numeric
         ELSE /\ mb_returned' = RaisedUpdateFailed
              /\ UNCHANGED mb_data
    /\ mb_pc' = "idle"
    /\ UNCHANGED <<is_enabled, mb_read, telemetry_data_numeric,
                   telemetry_data_for_api, mb_ticks>>
    /\ UNCHANGED <<smaVars, blockVars, decoderVars, callVars, probeVars>>

NextModbus ==
    \/ SetEnabled
    \/ MbTickStart
    \/ MbReadTelemetry
    \/ MbPost

SpecModbus == ModbusSpecInit /\ [][NextModbus]_vars

-----------------------------------------------------------------------------
(* coordinator.py: to_int_str_or_none and _map_sma_to_spock *)

\* A value of sensors_dict: the key is missing, the value is None, a string
\* that is not a number, or a number held in tenths (v10 = 10 * value).
SensorValue(t, v10) == [t |-> t, v10 |-> v10]

NumberOf(v10) == SensorValue("num", v10)

\* sensors_dict.get(key, 0) or 0, in tenths: a missing key, None and 0 all
\* give 0.
GetOrZero(x) == IF x.t = "num" THEN x.v10 ELSE 0

\* int(float(val)) of a value held in tenths: the fraction is dropped,
\* towards zero.
IntOfTenths(v10) ==
    IF v10 >= 0 THEN v10 \div 10 ELSE -((-v10) \div 10)

\* to_int_str_or_none: None for None (sensors_dict.get of a missing key
\* included) and for a value float() rejects, else str(int(float(val))).
to_int_str_or_none(val) ==
    IF val.t = "num" THEN ToString(IntOfTenths(val.v10)) ELSE JNull

\* A mapping whose grid power is export minus import.
_map_sma_to_spock_ExportMinusImport(sd) ==
    LET charge == GetOrZero(sd.battery_power_charge_total)
        discharge == GetOrZero(sd.battery_power_discharge_total)
        pv_a == GetOrZero(sd.pv_power_a)
        pv_b == GetOrZero(sd.pv_power_b)
        grid_absorb == GetOrZero(sd.metering_power_absorbed)
        grid_supply == GetOrZero(sd.metering_power_supplied)
    IN  [plant_id |-> ToString(PlantId),
         bat_soc |-> to_int_str_or_none(sd.battery_soc_total),
         bat_power |-> to_int_str_or_none(NumberOf(charge - discharge)),
         pv_power |-> to_int_str_or_none(NumberOf(pv_a + pv_b)),
         ongrid_power |->
             to_int_str_or_none(NumberOf(grid_supply - grid_absorb)),
         bat_charge_allowed |-> "true",
         bat_discharge_allowed |-> "true",
         bat_capacity |-> "0",
         total_grid_output_energy |->
             to_int_str_or_none(NumberOf(grid_supply))]

\* _map_sma_to_spock, lines 153-194.
_map_sma_to_spock(sd) ==
    LET charge == GetOrZero(sd.battery_power_charge_total)
        discharge == GetOrZero(sd.battery_power_discharge_total)
        battery_power == charge - discharge
        pv_a == GetOrZero(sd.pv_power_a)
        pv_b == GetOrZero(sd.pv_power_b)
        pv_power == pv_a + pv_b
        grid_absorb == GetOrZero(sd.metering_power_absorbed)
        grid_supply == GetOrZero(sd.metering_power_supplied)
        net_grid_power == grid_absorb - grid_supply
        supply_power == grid_supply
    IN  [plant_id |-> ToString(PlantId),
         bat_soc |-> to_int_str_or_none(sd.battery_soc_total),
         bat_power |-> to_int_str_or_none(NumberOf(battery_power)),
         pv_power |-> to_int_str_or_none(NumberOf(pv_power)),
         ongrid_power |-> to_int_str_or_none(NumberOf(net_grid_power)),
         bat_charge_allowed |-> "true",
         bat_discharge_allowed |-> "true",
         bat_capacity |-> "0",
         total_grid_output_energy |->
             to_int_str_or_none(NumberOf(supply_power))]

\* Sensor values the mapping is exercised with: absent in either way, or a
\* power in tenths of a watt (1.5 W, 500 W).
AbsentValues == {SensorValue("missing", 0), SensorValue("none", 0)}

PowerValues == AbsentValues \cup {NumberOf(15), NumberOf(5000)}

BatteryPowerValues == PowerValues \cup {NumberOf(0)}

SocValues == AbsentValues \cup
             {SensorValue("text", 0), NumberOf(0), NumberOf(555),
              NumberOf(1000)}

SensorsDicts ==
    [battery_soc_total : SocValues,
     battery_power_charge_total : BatteryPowerValues,
     battery_power_discharge_total : BatteryPowerValues,
     pv_power_a : PowerValues,
     pv_power_b : PowerValues,
     metering_power_absorbed : PowerValues,
     metering_power_supplied : PowerValues]

\* One call of _map_sma_to_spock on one sensors_dict.
MapInit ==
    /\ ProbesIdle
    /\ CoordinatorInit
    /\ reg[REGISTER_CONTROL_MODE] = _split_u32(AUTO_MODE_VALUE)
    /\ ModbusInit
    /\ BlockIdle
    /\ DecoderIdle
    /\ NormIdle
    /\ rd = [done |-> FALSE]
    /\ clients = [op |-> "none", log |-> <<>>]
    /\ \E sd \in SensorsDicts :
         mapped = [done |-> FALSE, given |-> sd, payload |-> NoPayload]

CallMapSmaToSpock ==
    /\ ~mapped.done
    /\ mapped' = [mapped EXCEPT !.payload = _map_sma_to_spock(mapped.given),
                                !.done = TRUE]
    /\ UNCHANGED <<nrm, rd, clients, smaVars, modbusVars, blockVars,
                   decoderVars, probeVars>>

NextMap == CallMapSmaToSpock

SpecMap == MapInit /\ [][NextMap]_vars

-----------------------------------------------------------------------------
(* The Modbus clients of the device operations *)

\* What an operation does on a client, in order: connect, the block reads
\* or register writes, close.
ClientEvent(client, ev, r, count) ==
    [client |-> client, ev |-> ev, reg |-> r, count |-> count]

ConnectOf(client) == ClientEvent(client, "connect", 0, 0)

ConnectFailedOf(client) == ClientEvent(client, "connect_failed", 0, 0)

CloseOf(client) == ClientEvent(client, "close", 0, 0)

\* One call of _try_read_register_block(client, r, count, slave).
ReadBlockOf(client, r, count) == ClientEvent(client, "read_block", r, count)

\* The write_registers calls behind a list of write attempts.
WritesOf(client, ws) ==
    [i \in 1..Len(ws) |-> ClientEvent(client, "write", ws[i].adr, 2)]

\* A writer that closes its client only when no write raised.
WriterClientLog_NoFinally(c, conn, r1, r2) ==
    IF c.fn # "set_auto_mode" /\ c.watts < 0
    THEN <<>>
    ELSE IF ~conn
    THEN <<ConnectFailedOf("writer"), CloseOf("writer")>>
    ELSE LET ws == RunWriter(c, TRUE, r1, r2)
         IN  <<ConnectOf("writer")>> \o WritesOf("writer", ws)
             \o (IF \E i \in 1..Len(ws) : ws[i].res = "raise"
                 THEN <<>>
                 ELSE <<CloseOf("writer")>>)

\* A writer whose _open_client returns None without closing the client.
WriterClientLog_LeaksUnconnected(c, conn, r1, r2) ==
    IF c.fn # "set_auto_mode" /\ c.watts < 0
    THEN <<>>
    ELSE IF ~conn
    THEN <<ConnectFailedOf("writer")>>
    ELSE <<ConnectOf("writer")>>
         \o WritesOf("writer", RunWriter(c, TRUE, r1, r2))
         \o <<CloseOf("writer")>>

\* SMABatteryWriter.set_auto_mode / set_charge_watts / set_discharge_watts
\* with _open_client: a negative watts returns before a client exists; a
\* failed connect closes the client and returns; otherwise the writes run
\* inside try / except / finally: client.close().
WriterClientLog(c, conn, r1, r2) ==
    IF c.fn # "set_auto_mode" /\ c.watts < 0
    THEN <<>>
    ELSE IF ~conn
    THEN <<ConnectFailedOf("writer"), CloseOf("writer")>>
    ELSE <<ConnectOf("writer")>>
         \o WritesOf("writer", RunWriter(c, TRUE, r1, r2))
         \o <<CloseOf("writer")>>

\* The end of the try statement that opens at line 187 of battery_control.py:
\* the client is released before the function returns.
ApplyOperationRelease == <<CloseOf("client")>>

\* _apply_operation_sync: a failed connect returns False at once; otherwise
\* the writes run inside the try statement.
ApplyOperationClientLog(operation_mode, power_w, conn, r1, r2) ==
    IF ~conn
    THEN <<ConnectFailedOf("client")>>
    ELSE <<ConnectOf("client")>>
         \o WritesOf("client",
                     _apply_operation_sync(operation_mode, power_w, TRUE,
                                           r1, r2))
         \o ApplyOperationRelease

\* Lines 326-337: the battery block decoded; err tells that a decode raised.
BatDecoded(bat) ==
    LET decoder_bat == fromRegisters(bat.registers, "Big", "Little")
        d1 == Decode(decoder_bat, "32bit_int")
        d2 == Decode([decoder_bat EXCEPT !._pos = d1.pos], "32bit_uint")
        sk == skip_bytes([decoder_bat EXCEPT !._pos = d2.pos], 4)
        d3 == Decode(sk, "32bit_uint")
    IN  [err |-> d1.err # None \/ d2.err # None \/ d3.err # None,
         bat_soc |-> IF d2.err = None THEN _norm_u32(d2.value) ELSE NoneInt]

\* Lines 366-369 and 387-390: decode_32bit_int of a two-register block.
Decodes32(block) ==
    Decode(fromRegisters(block.registers, "Big", "Little"), "32bit_int").err
        = None

\* _read_sma_telemetry, lines 264-427, as seen from its two clients: the
\* block reads it asks for, up to the one that raises, then the finally
\* clause that closes both clients.
ReadClientLog(bat, soc16diag, soc16, grid, pv) ==
    LET b == "battery_client"
        p == "pv_client"
        fin == <<CloseOf(b), CloseOf(p)>>
        first == <<ConnectOf(b), ReadBlockOf(b, SMA_REG_BAT_POWER, 8)>>
        diag == <<ReadBlockOf(b, SMA_REG_BAT_SOC, 1)>>
        retry == IF BatDecoded(bat).bat_soc.some
                 THEN <<>>
                 ELSE <<ReadBlockOf(b, SMA_REG_BAT_SOC, 1)>>
        gridRead == <<ReadBlockOf(b, SMA_REG_GRID_POWER, 2)>>
        pvRead == <<ConnectOf(p), ReadBlockOf(p, SMA_REG_PV_POWER, 2)>>
    IN  IF ~bat.ok
        THEN first \o fin
        ELSE IF ~soc16diag \/ BatDecoded(bat).err
        THEN first \o diag \o fin
        ELSE IF ~grid.ok \/ ~Decodes32(grid)
        THEN first \o diag \o retry \o gridRead \o fin
        ELSE first \o diag \o retry \o gridRead \o pvRead \o fin

\* Blocks shorter than asked for, which the decoder cannot decode.
ShortBatBlocks == {BlockOf(<<500, 0, 50, 0, 0, 0>>)}

ShortBlocks == {BlockOf(<<0>>)}

EmptyBlocks == {BlockOf(<<>>)}

ClientResults == {"ok", "err", "raise"}

ClientsFrame == UNCHANGED <<nrm, mapped, smaVars, modbusVars, blockVars,
                            decoderVars, probeVars>>

\* writer.set_auto_mode()
ClientsSetAutoMode ==
    /\ clients.op = "none"
    /\ \E conn \in BOOLEAN, r1 \in ClientResults, r2 \in ClientResults :
         clients' = [op |-> "set_auto_mode",
                     log |-> WriterClientLog(WriterCall("set_auto_mode", 0),
                                             conn, r1, r2)]
    /\ UNCHANGED rd
    /\ ClientsFrame

\* writer.set_charge_watts(w)
ClientsSetChargeWatts ==
    /\ clients.op = "none"
    /\ \E w \in Watts, conn \in BOOLEAN, r1 \in ClientResults,
          r2 \in ClientResults :
         clients' = [op |-> "set_charge_watts",
                     log |-> WriterClientLog(WriterCall("set_charge_watts", w),
                                             conn, r1, r2)]
    /\ UNCHANGED rd
    /\ ClientsFrame

\* writer.set_discharge_watts(w)
ClientsSetDischargeWatts ==
    /\ clients.op = "none"
    /\ \E w \in Watts, conn \in BOOLEAN, r1 \in ClientResults,
          r2 \in ClientResults :
         clients' = [op |-> "set_discharge_watts",
                     log |-> WriterClientLog(
                                 WriterCall("set_discharge_watts", w),
                                 conn, r1, r2)]
    /\ UNCHANGED rd
    /\ ClientsFrame

\* battery_control._apply_operation_sync(host, port, unit_id, mode, power_w)
ClientsApplyOperationSync ==
    /\ clients.op = "none"
    /\ \E m \in OpModes \ {JNumber}, w \in Watts, conn \in BOOLEAN,
          r1 \in ClientResults, r2 \in ClientResults :
         clients' = [op |-> "_apply_operation_sync",
                     log |-> ApplyOperationClientLog(m, w, conn, r1, r2)]
    /\ UNCHANGED rd
    /\ ClientsFrame

\* coordinator._read_sma_telemetry() against devices that answer each block
\* read with registers or not at all.
CallReadSmaTelemetry ==
    /\ clients.op = "none"
    /\ \E bat \in BatBlocks \cup ShortBatBlocks, soc16diag \in BOOLEAN,
          soc16 \in Soc16Blocks \cup EmptyBlocks,
          grid \in GridBlocks \cup ShortBlocks,
          pv \in PvBlocks \cup ShortBlocks :
         /\ rd' = [done |-> TRUE, bat |-> bat, soc16diag |-> soc16diag,
                   soc16 |-> soc16, grid |-> grid, pv |-> pv,
                   out |-> _read_sma_telemetry(bat, soc16diag, soc16, grid,
                                               pv)]
         /\ clients' = [op |-> "_read_sma_telemetry",
                        log |-> ReadClientLog(bat, soc16diag, soc16, grid,
                                              pv)]
    /\ ClientsFrame

NextClients ==
    \/ ClientsSetAutoMode
    \/ ClientsSetChargeWatts
    \/ ClientsSetDischargeWatts
    \/ ClientsApplyOperationSync
    \/ CallReadSmaTelemetry

SpecClients == Init /\ [][NextClients]_vars

-----------------------------------------------------------------------------
(* http_api.py: SpockApiView.post *)

\* A JSON value of the request body, by type: the key is missing, null, a
\* string, a number (s is its str()), or a list.
JsonValue(t, str) == [t |-> t, s |-> str]

\* cv.string: None and containers are rejected, anything else becomes
\* str(value).
cv_string(v) ==
    IF v.t \in {"str", "num"}
    THEN [err |-> FALSE, s |-> v.s]
    ELSE [err |-> TRUE, s |-> ""]

\* cv.Coerce(float): float(value) must succeed.
coerce_float(v) ==
    IF v.t = "num" \/ (v.t = "str" /\ v.s \in {"1.5", "7"})
    THEN [err |-> FALSE, s |-> v.s]
    ELSE [err |-> TRUE, s |-> ""]

\* COMMAND_SCHEMA(data), lines 16-22: a dict with the required plant_id and
\* command, an optional value, and no other key.
COMMAND_SCHEMA(body) ==
    IF body.json # "object"
    THEN [err |-> TRUE, plant_id |-> ""]
    ELSE IF body.extra
    THEN [err |-> TRUE, plant_id |-> ""]
    ELSE IF body.plant_id.t = "missing" \/ cv_string(body.plant_id).err
    THEN [err |-> TRUE, plant_id |-> ""]
    ELSE IF body.command.t = "missing" \/ cv_string(body.command).err
    THEN [err |-> TRUE, plant_id |-> ""]
    ELSE IF body.value.t # "missing" /\ coerce_float(body.value).err
    THEN [err |-> TRUE, plant_id |-> ""]
    ELSE [err |-> FALSE, plant_id |-> cv_string(body.plant_id).s]

ApiToken == "T"

\* A view that validates the body before the token.
post_BodyFirst(valid_plant_id, req) ==
    LET validated == COMMAND_SCHEMA(req.body)
    IN  IF req.body.json = "invalid" \/ validated.err
        THEN 400
        ELSE IF req.authorization # "Bearer " \o ApiToken
        THEN 401
        ELSE IF validated.plant_id # valid_plant_id
        THEN 403
        ELSE 200

\* SpockApiView.post, lines 47-90: the status of the response.
post(valid_plant_id, req) ==
    LET valid_token == "Bearer " \o ApiToken
        validated == COMMAND_SCHEMA(req.body)
    IN  IF req.authorization # valid_token
        THEN 401
        ELSE IF req.body.json = "invalid" \/ validated.err
        THEN 400
        ELSE IF validated.plant_id # valid_plant_id
        THEN 403
        ELSE 200

\* Requests the view is exercised with.  A missing header is JNull.
AuthorizationHeaders ==
    {JNull, "Bearer T", "Bearer X", "T", "bearer T", "Bearer T "}

PlantIdValues ==
    {JsonValue("missing", ""), JsonValue("null", ""), JsonValue("str", "P"),
     JsonValue("str", "Q"), JsonValue("num", "7"), JsonValue("list", "")}

CommandValues ==
    {JsonValue("missing", ""), JsonValue("str", "set_algo"),
     JsonValue("list", "")}

ValueValues ==
    {JsonValue("missing", ""), JsonValue("num", "1.5"),
     JsonValue("str", "7"), JsonValue("str", "abc"), JsonValue("null", "")}

NoBody(json) ==
    [json |-> json, plant_id |-> JsonValue("missing", ""),
     command |-> JsonValue("missing", ""), value |-> JsonValue("missing", ""),
     extra |-> FALSE]

Bodies ==
    {NoBody("invalid"), NoBody("list")}
    \cup [json : {"object"}, plant_id : PlantIdValues, command : CommandValues,
          value : ValueValues, extra : BOOLEAN]

ValidPlantIds == {"P", "7"}

\* One POST to the view.
WebhookInit ==
    /\ CoordinatorInit
    /\ reg[REGISTER_CONTROL_MODE] = _split_u32(AUTO_MODE_VALUE)
    /\ ModbusInit
    /\ BlockIdle
    /\ DecoderIdle
    /\ CallsIdle
    /\ split = [done |-> FALSE]
    /\ rpc = [pc |-> "none"]
    /\ \E a \in AuthorizationHeaders, b \in Bodies, vp \in ValidPlantIds :
         web = [done |-> FALSE, valid_plant_id |-> vp,
                req |-> [authorization |-> a, body |-> b], status |-> 0]

Post ==
    /\ ~web.done
    /\ web' = [web EXCEPT !.status = post(web.valid_plant_id, web.req),
                          !.done = TRUE]
    /\ UNCHANGED <<split, rpc, smaVars, modbusVars, blockVars, decoderVars,
                   callVars>>

NextWebhook == Post

SpecWebhook == WebhookInit /\ [][NextWebhook]_vars

-----------------------------------------------------------------------------
(* The 32-bit splitters called on their own *)

\* Values around every boundary of the two words, and the small values.
SplitEdges ==
    {0, 1, 32767, 32768, 65535, 65536, 65537, 98304, 16777216, 1073741824,
     2147418111, 2147418112, 2147450879, 2147450880, 2147483646, 2147483647}

SmallValues == 2..60

\* The unsigned inputs that fit the integers of the model checker.
U32Inputs == SplitEdges \cup SmallValues

S32Inputs ==
    U32Inputs \cup {-v : v \in U32Inputs} \cup {-2147483647 - 1}

SplitInit ==
    /\ CoordinatorInit
    /\ reg[REGISTER_CONTROL_MODE] = _split_u32(AUTO_MODE_VALUE)
    /\ ModbusInit
    /\ BlockIdle
    /\ DecoderIdle
    /\ CallsIdle
    /\ web = [done |-> FALSE]
    /\ rpc = [pc |-> "none"]
    /\ \/ \E v \in U32Inputs :
            split = [done |-> FALSE, fn |-> "_split_u32", val |-> v,
                     writer |-> <<0, 0>>, bc |-> <<0, 0>>]
       \/ \E v \in S32Inputs :
            split = [done |-> FALSE, fn |-> "_split_s32", val |-> v,
                     writer |-> <<0, 0>>, bc |-> <<0, 0>>]

SplitFrame == UNCHANGED <<web, rpc, smaVars, modbusVars, blockVars,
                          decoderVars, callVars>>

\* SMABatteryWriter._split_u32(val) and battery_control._split_u32(val)
CallSplitU32 ==
    /\ ~split.done
    /\ split.fn = "_split_u32"
    /\ split' = [split EXCEPT !.writer = _split_u32(split.val),
                              !.bc = bc_split_u32(split.val),
                              !.done = TRUE]
    /\ SplitFrame

\* SMABatteryWriter._split_s32(val) and battery_control._split_s32(val)
CallSplitS32 ==
    /\ ~split.done
    /\ split.fn = "_split_s32"
    /\ split' = [split EXCEPT !.writer = _split_s32(split.val),
                              !.bc = bc_split_s32(split.val),
                              !.done = TRUE]
    /\ SplitFrame

NextSplit ==
    \/ CallSplitU32
    \/ CallSplitS32

SpecSplit == SplitInit /\ [][NextSplit]_vars

-----------------------------------------------------------------------------
(* sma_api.py: SmaApiClient *)

\* Most nested _rpc_request calls the interpreter allows before it raises
\* RecursionError.
MaxDepth == 3

\* What the device answers to one HTTP request: a JSON body (with or without
\* the member the caller looks for), status 401, another error status, or
\* nothing (ClientError).
LoginAnswers == {"token", "no_token", "401", "http_error", "net_error"}

RpcAnswers == {"result", "error", "error_expirado", "401", "http_error",
               "net_error"}

NoError == ""

\* _request: the message of the SmaApiError it raises, NoError when it
\* returns the JSON body.  The error raised for 401 inside the try block is
\* caught by  except Exception  and wrapped with its text.
_request(answer) ==
    CASE answer = "401" ->
            "Error inesperado en request: Token expirado o invalido"
      [] answer = "http_error" -> "Error inesperado en request: 500"
      [] answer = "net_error"  -> "Error de red"
      [] OTHER                 -> NoError

\* "expirado" in str(e)
HasExpirado(msg) ==
    msg \in {"Error inesperado en request: Token expirado o invalido",
             "Error RPC: sesion expirado"}

\* One request sent to the device and its answer.
Sent(url, answer) == [url |-> url, answer |-> answer]

RpcFailed(st, msg) == [st EXCEPT !.pc = "done", !.out = msg]

\* A call of _rpc_request on a client with or without a session token.
RpcInit ==
    /\ CoordinatorInit
    /\ reg[REGISTER_CONTROL_MODE] = _split_u32(AUTO_MODE_VALUE)
    /\ ModbusInit
    /\ BlockIdle
    /\ DecoderIdle
    /\ CallsIdle
    /\ web = [done |-> FALSE]
    /\ split = [done |-> FALSE]
    /\ \E t \in BOOLEAN :
         rpc = [pc |-> "entry", token |-> t, depth |-> 0, log |-> <<>>,
                out |-> NoError]

RpcFrame == UNCHANGED <<web, split, smaVars, modbusVars, blockVars,
                        decoderVars, callVars>>

\* Lines 90-91 with a token: no login.
RpcKeepToken ==
    /\ rpc.pc = "entry"
    /\ rpc.token
    /\ rpc' = [rpc EXCEPT !.pc = "request"]
    /\ RpcFrame

\* Lines 90-91 without a token: await self._login(), outside the try block,
\* so that an error of the login ends the call and every call above it.
RpcLogin ==
    /\ rpc.pc = "entry"
    /\ ~rpc.token
    /\ \E a \in LoginAnswers :
         LET st == [rpc EXCEPT !.log = Append(@, Sent("login", a))]
         IN  rpc' = IF _request(a) # NoError
                    THEN RpcFailed(st, _request(a))
                    ELSE IF a = "no_token"
                    THEN RpcFailed(st, "Login fallido, no se recibio token")
                    ELSE [st EXCEPT !.token = TRUE, !.pc = "request"]
    /\ RpcFrame

\* The recursive call of line 112: it raises RecursionError at the limit of
\* the interpreter.
RpcRetry(st) ==
    IF st.depth >= MaxDepth
    THEN RpcFailed([st EXCEPT !.token = FALSE], "RecursionError")
    ELSE [st EXCEPT !.token = FALSE, !.depth = @ + 1, !.pc = "entry"]

\* Lines 102-113: the POST of the call, and the except branch.
RpcRequest ==
    /\ rpc.pc = "request"
    /\ \E a \in RpcAnswers :
         LET st  == [rpc EXCEPT !.log = Append(@, Sent("services", a))]
             msg == IF _request(a) # NoError
                    THEN _request(a)
                    ELSE IF a = "error"
                    THEN "Error RPC: -32601"
                    ELSE IF a = "error_expirado"
                    THEN "Error RPC: sesion expirado"
                    ELSE NoError
         IN  rpc' = IF msg = NoError
                    THEN [st EXCEPT !.pc = "done", !.out = "result"]
                    ELSE IF HasExpirado(msg)
                    THEN RpcRetry(st)
                    ELSE RpcFailed(st, msg)
    /\ RpcFrame

NextRpc ==
    \/ RpcKeepToken
    \/ RpcLogin
    \/ RpcRequest

SpecRpc == RpcInit /\ [][NextRpc]_vars

-----------------------------------------------------------------------------
(* Vocabulary of the properties *)

IsModeWrite(w, v) == w.adr = REGISTER_CONTROL_MODE /\ S32Of(w.regs) = v

IsSetpointWrite(w, v) == w.adr = REGISTER_POWER_SETPOINT /\ S32Of(w.regs) = v

NoManualWrite(ws) ==
    \A i \in 1..Len(ws) : ~IsModeWrite(ws[i], 802)

NoNonZeroSetpoint(ws) ==
    \A i \in 1..Len(ws) : ws[i].adr = 40149 => S32Of(ws[i].regs) = 0

\* The AUTO sequence: setpoint 40149 = 0, then control mode 40151 = 803.
IsAutoSequence(ws) ==
    /\ Len(ws) = 2
    /\ IsSetpointWrite(ws[1], 0)
    /\ IsModeWrite(ws[2], 803)

\* The AUTO sequence as far as it got.
IsAutoPrefix(ws) ==
    /\ Len(ws) <= 2
    /\ Len(ws) >= 1 => IsSetpointWrite(ws[1], 0)
    /\ Len(ws) = 2 => IsModeWrite(ws[2], 803)

NoWriteRaised(ws) == \A i \in 1..Len(ws) : ws[i].res # "raise"

\* A tick of the coordinator has run to its end.
TickEnded == pc = "idle" /\ ticks > 0 /\ outcome \in {"ok", "UpdateFailed"}

\* The push of the tick failed: transport error, non-200 status or a body
\* that is not JSON.
PushFailed ==
    \/ response.net \in {"ClientError", "Timeout"}
    \/ response.net = "ok" /\ response.status # 200
    \/ response.net = "ok" /\ response.status = 200 /\ response.body = "badjson"

\* HTTP 200 without a valid command: not an object, status not "ok", or
\* operation_mode missing or empty.
NoValidCommand ==
    /\ response.net = "ok"
    /\ response.status = 200
    /\ \/ response.body = "nondict"
       \/ /\ response.body = "dict"
          /\ \/ response.data.status # "ok"
             \/ response.data.operation_mode \in {JNull, ""}

\* The command of the response was handed to _apply_spock_command.
CommandApplied ==
    /\ response.body = "dict"
    /\ call.fn # "none"
    /\ fallbacks = 0
    /\ \/ TickEnded
       \/ outcome = "applied"

CmdMode == Lower(response.data.operation_mode)

CmdAction == response.data.action

ActionIsNumber == CmdAction.t \in {"num", "numstr"}

\* The action value is zero or negative.
ActionNonPositive ==
    /\ ActionIsNumber
    /\ \/ CmdAction.sign = -1
       \/ CmdAction.ip = 0 /\ CmdAction.fp = 0

\* The magnitude int(|action|) is zero: no number, or a number below 1 in
\* absolute value.
MagnitudeIsZero == ~ActionIsNumber \/ CmdAction.ip = 0

-----------------------------------------------------------------------------
(* Properties *)

\* C1: a tick that ends in error (SMA read error, push error, missing or
\* invalid command, device connection/write fault) does not leave the
\* battery in MANUAL from an earlier command: the last value written to the
\* control-mode register 40151 is AUTO (803).  Stated for the ticks in
\* which the device itself answered every request made to it, and once a
\* command has written the mode register.
C1_ErrorTickEndsInAuto ==
    (TickEnded /\ tickErr # {} /\ "device" \notin tickErr /\ lastMode # 0) =>
        lastMode = 803

\* C2: in an enabled tick whose push fails, the AUTO fallback is invoked
\* exactly once and no charge/discharge write (MANUAL mode or non-zero
\* setpoint) occurs; the fallback never runs twice in a tick.
C2_PushFailureFallsBackOnce ==
    /\ fallbacks <= 1
    /\ (TickEnded /\ PushFailed) =>
          /\ fallbacks = 1
          /\ call.fn = "set_auto_mode"
          /\ IsAutoPrefix(writes)
          /\ NoManualWrite(writes)
          /\ NoNonZeroSetpoint(writes)

C2_Witness ==
    /\ TickEnded
    /\ response.status = 500
    /\ fallbacks = 1
    /\ IsAutoSequence(writes)
    /\ S32Of(reg[40151]) = 803

C4_NonPositiveActionIsAuto ==
    (TickEnded /\ CommandApplied /\ CmdMode \in {"charge", "discharge"}
        /\ ActionNonPositive) =>
        /\ NoManualWrite(writes)
        /\ NoNonZeroSetpoint(writes)
        /\ (call.conn /\ NoWriteRaised(writes)) => IsAutoSequence(writes)

\* C4 amended: a charge or discharge command whose magnitude int(|action|)
\* is zero runs set_auto_mode: its writes are the AUTO sequence (all of it
\* when the connection opens and no write raises, a prefix otherwise),
\* never MANUAL and never a non-zero setpoint.  A negative action -m with
\* m >= 1 is applied as the magnitude m.
C4_ZeroMagnitudeIsAuto ==
    (TickEnded /\ CommandApplied /\ CmdMode \in {"charge", "discharge"}) =>
        /\ MagnitudeIsZero =>
              /\ call.fn = "set_auto_mode"
              /\ IsAutoPrefix(writes)
              /\ NoManualWrite(writes)
              /\ NoNonZeroSetpoint(writes)
              /\ (call.conn /\ NoWriteRaised(writes)) => IsAutoSequence(writes)
        /\ (ActionIsNumber /\ CmdAction.sign = -1 /\ CmdAction.ip >= 1) =>
              /\ call.fn = IF CmdMode = "charge"
                           THEN "set_charge_watts"
                           ELSE "set_discharge_watts"
              /\ call.watts = CmdAction.ip

C4_Witness ==
    /\ TickEnded
    /\ CommandApplied
    /\ CmdMode = "charge"
    /\ ActionIsNumber
    /\ CmdAction.ip = 0
    /\ IsAutoSequence(writes)

\* C5: for a magnitude m > 0 a charge command writes the setpoint register
\* 40149 with -m and a discharge command with +m (signed 32-bit), and no
\* other setpoint value is written in that call.
C5_SetpointSign ==
    (TickEnded /\ CommandApplied /\ CmdMode \in {"charge", "discharge"}
        /\ ActionIsNumber /\ CmdAction.ip > 0) =>
        LET m == CmdAction.ip
            v == IF CmdMode = "charge" THEN -m ELSE m
        IN  /\ \A i \in 1..Len(writes) :
                  writes[i].adr = 40149 => S32Of(writes[i].regs) = v
            /\ (call.conn /\ writes[1].res # "raise") =>
                  \E i \in 1..Len(writes) : IsSetpointWrite(writes[i], v)

C5_Witness ==
    /\ TickEnded
    /\ CommandApplied
    /\ CmdMode = "charge"
    /\ CmdAction.ip = 500
    /\ Len(writes) = 2
    /\ IsSetpointWrite(writes[2], -500)
    /\ S32Of(reg[40149]) = -500

\* C6: in a charge or discharge application with positive magnitude the
\* control-mode register 40151 is written with MANUAL (802) before the
\* setpoint register 40149; the setpoint write never precedes the mode
\* write.
C6_ManualBeforeSetpoint ==
    (TickEnded /\ CommandApplied /\ CmdMode \in {"charge", "discharge"}
        /\ ActionIsNumber /\ CmdAction.ip > 0) =>
        /\ Len(writes) >= 1 => IsModeWrite(writes[1], 802)
        /\ \A i \in 1..Len(writes) :
              writes[i].adr = 40149 =>
                  \E j \in 1..(i - 1) : IsModeWrite(writes[j], 802)

C6_Witness ==
    /\ TickEnded
    /\ CommandApplied
    /\ CmdMode = "discharge"
    /\ CmdAction.ip = 500
    /\ Len(writes) = 2
    /\ IsModeWrite(writes[1], 802)
    /\ IsSetpointWrite(writes[2], 500)

\* C7: for operation_mode auto and for any mode that is not charge,
\* discharge or auto (missing included) the applier performs the AUTO
\* sequence in order, setpoint 40149 = 0 then control mode 40151 = 803, and
\* writes neither MANUAL nor a non-zero setpoint.
C7_AutoAndUnknownRunAutoSequence ==
    (\/ outcome = "applied" /\ CmdMode \notin {"charge", "discharge"}
     \/ outcome = "bc" /\ Lower(call.fn) \notin {"charge", "discharge"}) =>
        /\ IsAutoPrefix(writes)
        /\ NoManualWrite(writes)
        /\ NoNonZeroSetpoint(writes)
        /\ (call.conn /\ writes[1].res # "raise") => IsAutoSequence(writes)

C7_Witness ==
    /\ outcome = "applied"
    /\ response.data.operation_mode = JNull
    /\ IsAutoSequence(writes)
    /\ NoWriteRaised(writes)

\* C8: set_charge_watts(w) and set_discharge_watts(w) with w <= 0 never
\* write MANUAL (802) to the control-mode register (the request is to be
\* resolved to the AUTO sequence).
C8_NonPositiveWattsNeverManual ==
    (outcome = "direct"
        /\ call.fn \in {"set_charge_watts", "set_discharge_watts"}
        /\ call.watts <= 0) =>
        NoManualWrite(writes)

\* C9: a register write that raises while a charge or discharge command is
\* applied degrades to an AUTO write attempt (mode 803) instead of ending
\* the call with only the writes done so far.
C9_FaultDegradesToAutoAttempt ==
    (TickEnded /\ CommandApplied
        /\ call.fn \in {"set_charge_watts", "set_discharge_watts"}
        /\ ~NoWriteRaised(writes)) =>
        \E i \in 1..Len(writes) : IsModeWrite(writes[i], 803)

\* C10: after a write the device reports as errored the remaining write of
\* the call is still attempted: set_auto_mode and _set_auto_control_mode
\* still write AUTO to the mode register after a failed setpoint write,
\* set_charge_watts / set_discharge_watts still write the setpoint after a
\* failed mode write.
C10_ErroredWriteDoesNotStopTheCall ==
    (Len(writes) >= 1 /\ writes[1].res = "err") =>
        /\ writes[1].adr = 40149 =>
              Len(writes) = 2 /\ IsModeWrite(writes[2], 803)
        /\ (writes[1].adr = 40151 /\ outcome # "bc") =>
              Len(writes) = 2 /\ writes[2].adr = 40149

C10_Witness ==
    /\ outcome = "direct"
    /\ call.fn = "set_auto_mode"
    /\ Len(writes) = 2
    /\ writes[1].res = "err"
    /\ writes[2].res = "ok"
    /\ S32Of(reg[40151]) = 803

-----------------------------------------------------------------------------
(* Properties of the payload decoder *)

\* A decode call has just been made.
DecodeDone == decoded.kind \in DecodeKinds

\* Bytes left after the cursor when the last decode call was made.
BytesLeftAt == Len(dec._buf) - decoded.at

\* The registers the decoder was built over, read back from its buffer.
RegisterAt(i) ==
    IF dec._byteorder = "Big"
    THEN dec._buf[2 * i - 1] * 256 + dec._buf[2 * i]
    ELSE dec._buf[2 * i] * 256 + dec._buf[2 * i - 1]

\* C18: the register pair the write path produces for a signed 32-bit value
\* v, _split_s32(v), decodes back to v with the settings of the telemetry
\* reader (byte order Big, word order Little).
C18_WritePathRoundTrip ==
    ( /\ dec_src.given
      /\ dec._byteorder = "Big"
      /\ dec._wordorder = "Little"
      /\ decoded.kind = "32bit_int"
      /\ decoded.at = 0 )
    => /\ decoded.err = None
       /\ decoded.value = dec_src.v

\* C19: a decode of n bytes issued when fewer than n bytes remain after the
\* cursor fails with the buffer-underflow error; it returns no value and
\* leaves the cursor where it was.
C19_UnderflowRaises ==
    (DecodeDone /\ BytesLeftAt < WidthOf(decoded.kind))
    => /\ decoded.err = "IndexError"
       /\ decoded.value = None
       /\ decoded.after = decoded.at

\* C19 witness: a 32-bit decode was issued with two bytes left and raised.
C19_Witness ==
    /\ decoded.kind = "32bit_int"
    /\ decoded.at > 0
    /\ BytesLeftAt = 2
    /\ decoded.err = "IndexError"

\* C20: in the 32-bit decodes the word order alone decides which register
\* is the most-significant word: with word order Big it is the first
\* register and with word order Little the second, whatever the byte order.
C20_WordOrderAloneDecidesMsw ==
    ( /\ decoded.kind \in {"32bit_uint", "32bit_float"}
      /\ decoded.err = None
      /\ decoded.at = 0
      /\ dec._byteorder \in {"Big", "Little"}
      /\ dec._wordorder \in {"Big", "Little"} )
    => decoded.value = IF dec._wordorder = "Big"
                       THEN <<RegisterAt(1), RegisterAt(2)>>
                       ELSE <<RegisterAt(2), RegisterAt(1)>>

SkipDone == decoded.kind = "skip"

\* C21 (as stated): skip_bytes(n) moves the cursor on by exactly n bytes for
\* every n, also when that walks past the end of the buffer.
C21_SkipAdvancesExactly ==
    SkipDone => decoded.after = decoded.at + decoded.value

\* C21: skip_bytes(n) moves the cursor on by n bytes but never beyond the end
\* of the buffer: the cursor afterwards is the smaller of the buffer length
\* and the old cursor plus n, and it is where the decoder's cursor stands.
C21_SkipAdvancesClampedToEnd ==
    SkipDone =>
        /\ decoded.after = IF decoded.at + decoded.value <= Len(dec._buf)
                           THEN decoded.at + decoded.value
                           ELSE Len(dec._buf)
        /\ dec._pos = decoded.after

\* A skip that asked for more bytes than were left and stopped at the end.
C21_Witness ==
    /\ SkipDone
    /\ decoded.at + decoded.value > Len(dec._buf)
    /\ decoded.at < Len(dec._buf)
    /\ decoded.after = Len(dec._buf)

-----------------------------------------------------------------------------
(* Properties of the register resolver *)

BlockCallDone == rb_result.t # "none"

\* The candidate mappings of a logical register in their priority order:
\* holding registers with base 40001 and 40000, then input registers with
\* base 30001 and 30000.
Candidates(r) ==
    << [kind |-> "holding", addr |-> r - 40001],
       [kind |-> "holding", addr |-> r - 40000],
       [kind |-> "input", addr |-> r - 30001],
       [kind |-> "input", addr |-> r - 30000] >>

\* Candidate i can be read and its read yields a block without error.
Answers(i) ==
    /\ Candidates(rb_in.reg)[i].addr >= 0
    /\ rb_in.client[i].t = "ok"

\* The candidates up to i that have an address, in list order.
ReadableUpTo(i) ==
    SelectSeq(SubSeq(Candidates(rb_in.reg), 1, i), LAMBDA a : a.addr >= 0)

\* The position of the accepted candidate in the list.
AcceptedIndex ==
    CHOOSE i \in 1..4 :
        /\ Candidates(rb_in.reg)[i].kind = rb_result.kind
        /\ Candidates(rb_in.reg)[i].addr = rb_result.addr

\* C15: the block returned is that of the first candidate, in list order,
\* whose read completes without protocol error or exception and is not made
\* only of 0xFFFF; an all-0xFFFF block is passed over; no later candidate
\* is read.
C15_FirstNonSentinelBlockReturned ==
    rb_result.t = "return"
    => LET k == AcceptedIndex
       IN  /\ Answers(k)
           /\ ~AllSentinel(rb_in.client[k])
           /\ rb_result.registers = rb_in.client[k].registers
           /\ \A j \in 1..(k - 1) :
                  ~(Answers(j) /\ ~AllSentinel(rb_in.client[j]))
           /\ rb_issued[Len(rb_issued)] = Candidates(rb_in.reg)[k]

\* C15 as the code has it: the block returned is that of the first
\* candidate with a non-negative address whose read completes without
\* exception and without isError(), whatever its content; no later
\* candidate is read.
C15_FirstCleanBlockReturned ==
    rb_result.t = "return"
    => LET k == AcceptedIndex
       IN  /\ Answers(k)
           /\ rb_result.registers = rb_in.client[k].registers
           /\ \A j \in 1..(k - 1) : ~Answers(j)
           /\ rb_issued[Len(rb_issued)] = Candidates(rb_in.reg)[k]
           /\ Len(rb_issued) <= k

\* C15 witness: an all-0xFFFF block of the third candidate was returned
\* although the fourth candidate holds data.
C15_Witness ==
    /\ rb_result.t = "return"
    /\ rb_in.reg = SMA_REG_BAT_POWER
    /\ AcceptedIndex = 3
    /\ rb_in.count = 2
    /\ rb_result.registers = <<65535, 65535>>
    /\ rb_in.client[4].t = "ok"
    /\ ~AllSentinel(rb_in.client[4])

\* C16: the reads are issued for the candidates strictly in list order and
\* none is skipped: the reads made are exactly the candidates 1..k, k being
\* the accepted candidate, or all four when none is accepted.
C16_EveryCandidateReadInOrder ==
    BlockCallDone
    => rb_issued = SubSeq(Candidates(rb_in.reg), 1,
                          IF rb_result.t = "return" THEN AcceptedIndex ELSE 4)

\* C16 as the code has it: a candidate whose computed address is negative
\* is passed over without a read; the reads made are exactly the other
\* candidates up to the accepted one (or all of them), in list order, each
\* one before the accepted having failed.
C16_ReadableCandidatesReadInOrder ==
    BlockCallDone
    => LET k == IF rb_result.t = "return" THEN AcceptedIndex ELSE 4
       IN  /\ rb_issued = ReadableUpTo(k)
           /\ \A j \in 1..4 :
                  (j < k \/ rb_result.t = "raise") => ~Answers(j)

\* C16 witness: register 40149 on a device that answers on the second
\* candidate only: candidate 1 was read, then candidate 2 accepted.
C16_Witness ==
    /\ rb_result.t = "return"
    /\ rb_in.reg = REGISTER_POWER_SETPOINT
    /\ \A j \in 1..4 : Answers(j) <=> j = 2
    /\ rb_issued = << [kind |-> "holding", addr |-> 148],
                      [kind |-> "holding", addr |-> 149] >>
    /\ rb_result.addr = 149

\* Every candidate fails: its address is negative, its read raises or its
\* response is an error.
AllCandidatesFail == \A j \in 1..4 : ~Answers(j)

\* C17: when every candidate fails no block is returned: the call fails
\* with an error that names the logical register and the candidates that
\* were attempted.
C17_ErrorNamesRegisterAndCandidates ==
    (BlockCallDone /\ AllCandidatesFail)
    => /\ rb_result.t = "raise"
       /\ rb_result.msg.reg = rb_in.reg
       /\ "attempts" \in DOMAIN rb_result.msg
       /\ rb_result.msg.attempts = rb_issued

\* C17 as the code has it: when every candidate fails no block is returned:
\* the call raises ConnectionError, whose message carries the logical
\* register, the count and the unit id, and nothing about the candidates.
C17_ErrorNamesRegisterCountUnit ==
    (BlockCallDone /\ AllCandidatesFail)
    => /\ rb_result.t = "raise"
       /\ rb_result.error = "ConnectionError"
       /\ rb_result.registers = <<>>
       /\ rb_result.msg = [reg |-> rb_in.reg, count |-> rb_in.count,
                           unit |-> rb_in.unit_id]

\* C17 witness: both readable candidates of register 30843 failed, one by
\* exception and one by error response, and the call raised.
C17_Witness ==
    /\ rb_result.t = "raise"
    /\ rb_in.reg = SMA_REG_BAT_POWER
    /\ rb_in.client[3].t = "exc"
    /\ rb_in.client[4].t = "err"
    /\ Len(rb_issued) = 2

-----------------------------------------------------------------------------
(* Properties of the polling cycles *)

\* An empty snapshot, as a tick of SmaTelemetryCoordinator would return it.
EmptySnapshot == "{}"

\* C11: a tick made while polling is disabled performs no device read, no
\* HTTP push and no register write, and returns the cached snapshot
\* unchanged, or an empty snapshot when nothing has been cached yet; as the
\* cache is left as it was, consecutive disabled ticks return the same value.
C11_DisabledTickReturnsCacheOrEmpty ==
    outcome = "skipped"
    => /\ reads = 0
       /\ posts = 0
       /\ writes = <<>>
       /\ call = NoCall
       /\ returned = IF data = None THEN EmptySnapshot ELSE data

\* The eight canonical keys of a snapshot.
CanonicalKeys ==
    {"bat_soc", "bat_power", "pv_power", "ongrid_power", "bat_capacity",
     "bat_charge_allowed", "bat_discharge_allowed", "total_grid_output_energy"}

IsSafeDefault(t) ==
    /\ t.t = "dict"
    /\ DOMAIN t = CanonicalKeys \cup {"t"}
    /\ \A k \in CanonicalKeys \ {"bat_charge_allowed", "bat_discharge_allowed"} :
          t[k] = 0
    /\ t.bat_charge_allowed = FALSE
    /\ t.bat_discharge_allowed = FALSE

IsSafeDefaultPayload(pl) ==
    /\ DOMAIN pl = CanonicalKeys \cup {"plant_id"}
    /\ \A k \in CanonicalKeys \ {"bat_charge_allowed", "bat_discharge_allowed"} :
          pl[k] = "0"
    /\ pl.bat_charge_allowed = "false"
    /\ pl.bat_discharge_allowed = "false"

\* C12: in an enabled tick of SpockEnergyCoordinator a failed telemetry
\* read is not raised to the scheduler: the snapshot becomes the safe
\* default (numeric fields 0, both allowed flags false, the eight keys
\* present), the tick goes on to the POST, and that snapshot is what is
\* posted in the same tick and what the tick returns when the POST succeeds.
C12_FailedReadPostsSafeDefault ==
    mb_read = "failed"
    => /\ mb_pc \in {"post", "idle"}
       /\ IsSafeDefault(telemetry_data_numeric)
       /\ IsSafeDefaultPayload(telemetry_data_for_api)
       /\ (mb_pc = "idle"
             => (/\ mb_posts = 1
                 /\ \/ mb_returned = telemetry_data_numeric
                    \/ mb_returned.t = "UpdateFailed"))

\* C12 witness: the read failed, the default snapshot was posted and
\* returned by the tick.
C12_Witness ==
    /\ mb_read = "failed"
    /\ mb_pc = "idle"
    /\ mb_posts = 1
    /\ IsSafeDefault(mb_returned)
    /\ IsSafeDefaultPayload(telemetry_data_for_api)

\* C13: in an enabled tick of SmaTelemetryCoordinator a failed SMA read
\* does not stop the transmission: the tick does not raise and a payload
\* is still posted in that tick.
C13_FailedSmaReadStillPosts ==
    (TickEnded /\ "sma_read" \in tickErr)
    => /\ outcome # "UpdateFailed"
       /\ returned # Raised
       /\ posts = 1

\* C14: within an enabled tick the SMA read has completed before the POST
\* is issued, and the response of the POST has been received before any
\* register write; no write precedes the push and every step is taken
\* from the single position of the tick.
C14_ReadThenPushThenApply ==
    /\ [](/\ (posts > 0 => (reads = 1 /\ sensors_dict # None))
          /\ ((writes # <<>> \/ call # NoCall)
                => (posts = 1 /\ response # NoResponse))
          /\ (pc \in {"read", "post"} => (writes = <<>> /\ call = NoCall)))
    /\ [][/\ (posts' > posts
               => (pc = "post" /\ reads = 1 /\ writes = <<>>))
           /\ ((writes' # writes /\ writes' # <<>>)
               => (pc \in {"apply", "fallback"} /\ posts = 1
                   /\ response # NoResponse))
           /\ (reads' > reads
               => (pc = "read" /\ posts = 0 /\ writes = <<>>))]_vars

\* C14 witness: a tick that read, pushed, received a command and wrote
\* both registers.
C14_Witness ==
    /\ TickEnded
    /\ reads = 1
    /\ posts = 1
    /\ CommandApplied
    /\ Len(writes) = 2

-----------------------------------------------------------------------------
(* Properties of the sentinel normalisers *)

\* C22: _norm_u16 yields None exactly for 0xFFFF, _norm_u32 exactly for
\* 0xFFFFFFFF and 0x80000000, _norm_s32 exactly for -1 and -2147483648; every
\* other value (0 included) comes back unchanged, and no sentinel comes back
\* as a number.
C22_OnlySentinelsAbsent ==
    nrm.done =>
        /\ nrm.fn = "_norm_u16" =>
              IF nrm.arg = 65535
              THEN ~nrm.out.some
              ELSE nrm.out.some /\ nrm.out.v = nrm.arg
        /\ nrm.fn = "_norm_u32" =>
              IF (nrm.arg[1] = 65535 /\ nrm.arg[2] = 65535)
                 \/ (nrm.arg[1] = 32768 /\ nrm.arg[2] = 0)
              THEN ~nrm.out.some
              ELSE nrm.out.some /\ nrm.out.v = nrm.arg
        /\ nrm.fn = "_norm_s32" =>
              IF nrm.arg = -1 \/ nrm.arg = -2147483647 - 1
              THEN ~nrm.out.some
              ELSE nrm.out.some /\ nrm.out.v = nrm.arg

\* 0x80000000 was normalised as an unsigned value and came back absent.
C22_Witness ==
    /\ nrm.done
    /\ nrm.fn = "_norm_u32"
    /\ nrm.arg = <<32768, 0>>
    /\ ~nrm.out.some

-----------------------------------------------------------------------------
(* Properties of the telemetry reader and of the Modbus clients *)

ReadDone == rd.done /\ clients.op = "_read_sma_telemetry"

\* The 32-bit state of charge as the battery block holds it, lower word
\* first: registers 3 and 4 of the block.
PrimarySocWords == <<rd.bat.registers[4], rd.bat.registers[3]>>

PrimarySocAbsent ==
    \/ PrimarySocWords = <<65535, 65535>>
    \/ PrimarySocWords = <<32768, 0>>

PrimarySocInDomain ==
    /\ ~PrimarySocAbsent
    /\ PrimarySocWords[1] = 0
    /\ PrimarySocWords[2] <= 100

\* The block is as long as the decodes of it need.
HasWords(block, n) == block.ok /\ Len(block.registers) >= n

\* The reader asked for the 16-bit state of charge register.
Soc16WasRead ==
    \E i \in 1..Len(clients.log) :
        /\ clients.log[i].ev = "read_block"
        /\ clients.log[i].reg = 30845
        /\ clients.log[i].count = 1

\* C23: the 16-bit state of charge register (30845, one register) is read
\* only when the 32-bit state of charge is absent or outside 0..100, and its
\* value is used only when it is not 0xFFFF.
C23_Soc16ReadOnlyWhenPrimaryInvalid ==
    (ReadDone /\ HasWords(rd.bat, 8)) =>
        /\ Soc16WasRead => ~PrimarySocInDomain
        /\ (rd.out.t = "dict" /\ PrimarySocAbsent /\ rd.out.bat_soc # 0) =>
              /\ rd.soc16.ok
              /\ rd.soc16.registers # <<65535>>

\* C24: every snapshot a successful read returns has its state of charge
\* within 0..100.
C24_SocWithinDomain ==
    (ReadDone /\ rd.out.t = "dict") =>
        (0 <= rd.out.bat_soc /\ rd.out.bat_soc <= 100)

\* C25: when the three mandatory blocks are read and decoded, the read
\* returns a snapshot whatever happens to the reads of the 16-bit state of
\* charge register.
C25_Soc16FailureKeepsSnapshot ==
    (ReadDone /\ HasWords(rd.bat, 8) /\ HasWords(rd.grid, 2)
        /\ HasWords(rd.pv, 2)) =>
        rd.out.t = "dict"

\* C26: when the read of the battery block, of the grid block or of the PV
\* block fails or yields a block too short to decode, the read returns None;
\* a snapshot is returned only when all three were read and decoded.
C26_MandatoryFailureFailsSnapshot ==
    ReadDone =>
        /\ (~HasWords(rd.bat, 8) \/ ~HasWords(rd.grid, 2)
               \/ ~HasWords(rd.pv, 2)) => rd.out.t = "None"
        /\ rd.out.t \in {"None", "dict"}

\* The battery and grid blocks were read and the PV inverter did not answer.
C26_Witness ==
    /\ ReadDone
    /\ HasWords(rd.bat, 8)
    /\ HasWords(rd.grid, 2)
    /\ rd.soc16diag
    /\ ~rd.pv.ok
    /\ rd.out.t = "None"

\* Event i of the log opened a connection.
Opens(i) == clients.log[i].ev = "connect"

\* The client of event i is closed later in the log, and nothing is asked
\* of it after that.
ClosedAfter(i) ==
    \E j \in (i + 1)..Len(clients.log) :
        /\ clients.log[j].client = clients.log[i].client
        /\ clients.log[j].ev = "close"
        /\ \A k \in (j + 1)..Len(clients.log) :
               clients.log[k].client # clients.log[i].client

\* C27: when _read_sma_telemetry, a set_* method of the writer or
\* _apply_operation_sync has returned, every client it connected has been
\* closed, whether the operation succeeded, failed to connect, met a device
\* error or an exception.
C27_EveryConnectionClosed ==
    clients.op # "none" =>
        \A i \in 1..Len(clients.log) : Opens(i) => ClosedAfter(i)

\* A read that connected to the battery inverter and gave up on the grid
\* block, and whose log ends with the two closes.
C27_Witness ==
    /\ ReadDone
    /\ rd.bat.ok
    /\ ~rd.grid.ok
    /\ rd.out.t = "None"
    /\ Opens(1)
    /\ clients.log[Len(clients.log)].ev = "close"

-----------------------------------------------------------------------------
(* Properties of the payload mapping *)

Given(key) == mapped.given[key]

Present(key) == Given(key).t = "num"

\* The decimal string of a quantity held in tenths, fraction dropped.
StrOfTenths(v10) ==
    ToString(IF v10 >= 0 THEN v10 \div 10 ELSE -((-v10) \div 10))

\* C28: with its operands present, bat_power is charge minus discharge,
\* pv_power is string A plus string B, ongrid_power is absorbed minus
\* supplied and total_grid_output_energy is the supplied power.
C28_DerivedFields ==
    mapped.done =>
        /\ (Present("battery_power_charge_total")
               /\ Present("battery_power_discharge_total")) =>
              mapped.payload.bat_power =
                  StrOfTenths(Given("battery_power_charge_total").v10
                              - Given("battery_power_discharge_total").v10)
        /\ (Present("pv_power_a") /\ Present("pv_power_b")) =>
              mapped.payload.pv_power =
                  StrOfTenths(Given("pv_power_a").v10
                              + Given("pv_power_b").v10)
        /\ (Present("metering_power_absorbed")
               /\ Present("metering_power_supplied")) =>
              mapped.payload.ongrid_power =
                  StrOfTenths(Given("metering_power_absorbed").v10
                              - Given("metering_power_supplied").v10)
        /\ Present("metering_power_supplied") =>
              mapped.payload.total_grid_output_energy =
                  StrOfTenths(Given("metering_power_supplied").v10)

\* 1.5 W absorbed and 500 W supplied: ongrid_power is -498.
C28_Witness ==
    /\ mapped.done
    /\ Given("metering_power_absorbed") = NumberOf(15)
    /\ Given("metering_power_supplied") = NumberOf(5000)
    /\ mapped.payload.ongrid_power = "-498"
    /\ mapped.payload.total_grid_output_energy = "500"

\* C29: when an operand of a derived field is absent the field is sent as
\* its default, never computed from the other operand alone.
C29_AbsentOperandGivesDefault ==
    mapped.done =>
        /\ (~Present("battery_power_charge_total")
               \/ ~Present("battery_power_discharge_total")) =>
              mapped.payload.bat_power = "0"
        /\ (~Present("pv_power_a") \/ ~Present("pv_power_b")) =>
              mapped.payload.pv_power = "0"
        /\ (~Present("metering_power_absorbed")
               \/ ~Present("metering_power_supplied")) =>
              mapped.payload.ongrid_power = "0"

CanonicalPayloadKeys ==
    {"plant_id", "bat_soc", "bat_power", "pv_power", "ongrid_power",
     "bat_charge_allowed", "bat_discharge_allowed", "bat_capacity",
     "total_grid_output_energy"}

\* C30: the payload has exactly the nine keys, every value is a string (the
\* two flags 'true' or 'false'), and an absent reading is sent as its
\* default, never as null.
C30_NineStringsNeverNull ==
    mapped.done =>
        /\ DOMAIN mapped.payload = CanonicalPayloadKeys
        /\ \A k \in CanonicalPayloadKeys : mapped.payload[k] # JNull
        /\ mapped.payload.bat_charge_allowed \in {"true", "false"}
        /\ mapped.payload.bat_discharge_allowed \in {"true", "false"}
        /\ ~Present("battery_soc_total") => mapped.payload.bat_soc = "0"

-----------------------------------------------------------------------------
(* Properties of the inbound webhook *)

TokenValid == web.req.authorization = "Bearer T"

\* The body is not JSON, not an object, lacks plant_id or command, holds
\* null or a container where a string is required, a value that is no
\* number, or a key outside the schema.
BodyMalformed ==
    LET b == web.req.body
    IN  \/ b.json # "object"
        \/ b.extra
        \/ b.plant_id.t \in {"missing", "null", "list"}
        \/ b.command.t \in {"missing", "null", "list"}
        \/ b.value.t \in {"null", "list"}
        \/ b.value.t = "str" /\ b.value.s = "abc"

PlantIdMatches == web.req.body.plant_id.s = web.valid_plant_id

\* C31: the view answers 401 unless the Authorization header is exactly
\* 'Bearer <token>', else 400 for a malformed body, else 403 when plant_id
\* does not match, else 200; without the valid token the answer is never
\* 200, 400 or 403.
C31_WebhookStatusPrecedence ==
    web.done =>
        web.status = IF ~TokenValid THEN 401
                     ELSE IF BodyMalformed THEN 400
                     ELSE IF ~PlantIdMatches THEN 403
                     ELSE 200

\* A request with a wrong token, a body that is not JSON: answered 401.
C31_Witness ==
    /\ web.done
    /\ web.req.authorization = "Bearer X"
    /\ web.req.body.json = "invalid"
    /\ web.status = 401

-----------------------------------------------------------------------------
(* Properties of the push failures and of the master switch *)

\* The failure the coordinator reports for a status other than 200 when it
\* makes no difference between statuses.
GenericHttpError(status) ==
    "UpdateFailed: Error de API Spock (HTTP " \o ToString(status) \o ")"

\* C32: an HTTP 403 from the push endpoint is reported as an invalid-token
\* failure of its own, not as the failure reported for any other status
\* that is not 200.
C32_ForbiddenReportedAsInvalidToken ==
    ( /\ "push" \in tickErr
      /\ response.net = "ok"
      /\ response.status = 403 )
    => GenericHttpError(403) \notin tickErr

\* C33: once polling_enabled is False no step performs an HTTP push or a
\* register write, also not a step of a tick that was already running when
\* the switch was turned off.
C33_NoPushOrWriteWhileDisabled ==
    [][~polling_enabled => (posts' <= posts /\ Len(writes') <= Len(writes))]_vars

\* C34: a step that changes polling_enabled changes nothing of the device:
\* no read, no push, no register write, the registers and the last mode
\* written stay as they were; and a tick that finds polling disabled leaves
\* the registers alone too, so a battery in MANUAL stays in MANUAL.
C34_SwitchChangesOnlyTheFlag ==
    [][ /\ polling_enabled' # polling_enabled =>
              /\ reg' = reg
              /\ lastMode' = lastMode
              /\ writes' = writes
              /\ reads' = reads
              /\ posts' = posts
        /\ (~polling_enabled /\ ticks' = ticks + 1) =>
              /\ reg' = reg
              /\ lastMode' = lastMode
              /\ writes' = <<>>
              /\ reads' = 0
              /\ posts' = 0 ]_vars

\* Polling is off, the last tick was skipped and the battery is still in
\* MANUAL from the command of the tick before.
C34_Witness ==
    /\ ~polling_enabled
    /\ outcome = "skipped"
    /\ lastMode = 802
    /\ S32Of(reg[40151]) = 802

-----------------------------------------------------------------------------
(* Properties of a writer that cannot connect *)

WriterOps == {"set_auto_mode", "set_charge_watts", "set_discharge_watts"}

\* Event i of the log is a connect() that returned False.
ConnectFailed(i) == clients.log[i].ev = "connect_failed"

\* C35: when the Modbus connection cannot be opened, set_auto_mode,
\* set_charge_watts and set_discharge_watts call write_registers on no
\* register, close the client they created and return: the call consists of
\* the failed connect and the close, so the device keeps its mode and its
\* setpoint.
C35_FailedConnectWritesNothing ==
    (clients.op \in WriterOps /\ \E i \in 1..Len(clients.log) : ConnectFailed(i))
        => /\ \A k \in 1..Len(clients.log) : clients.log[k].ev # "write"
           /\ Len(clients.log) = 2
           /\ ConnectFailed(1)
           /\ clients.log[2].ev = "close"
           /\ clients.log[2].client = clients.log[1].client

\* The same on the device: a writer call whose connect failed leaves the
\* registers and the list of writes as they were.
C35_RegistersUnchanged ==
    [][(call'.fn \in WriterOps /\ ~call'.conn /\ outcome' = "direct")
          => (reg' = reg /\ lastMode' = lastMode /\ writes' = <<>>)]_vars

\* set_discharge_watts returned after a connect that failed.
C35_Witness ==
    /\ clients.op = "set_discharge_watts"
    /\ Len(clients.log) > 0
    /\ ConnectFailed(1)

-----------------------------------------------------------------------------
(* Properties of the magnitude of a command *)

\* The action carries no usable magnitude: the key is missing, the value is
\* null or not a number, or its integer part is 0.
ActionDegenerate ==
    \/ CmdAction.t \in {"missing", "null", "text"}
    \/ CmdAction.ip = 0

\* C36: _apply_spock_command called with a charge or discharge command whose
\* action is missing, null, non-numeric or truncates to 0 takes the magnitude
\* as 0 and runs set_auto_mode: the AUTO sequence is what the device
\* receives when it accepts the writes, MANUAL is never written and no
\* setpoint other than 0 is written.
C36_DegenerateActionIsAuto ==
    (outcome = "applied" /\ CmdMode \in {"charge", "discharge"}
        /\ ActionDegenerate) =>
        /\ call.fn = "set_auto_mode"
        /\ call.watts = 0
        /\ NoManualWrite(writes)
        /\ NoNonZeroSetpoint(writes)
        /\ IsAutoPrefix(writes)
        /\ (call.conn /\ NoWriteRaised(writes)) => IsAutoSequence(writes)

\* A discharge command with action "-0.5" ended in the AUTO sequence.
C36_Witness ==
    /\ outcome = "applied"
    /\ CmdMode = "discharge"
    /\ CmdAction.t = "numstr"
    /\ CmdAction.sign = -1
    /\ CmdAction.ip = 0
    /\ CmdAction.fp = 5
    /\ IsAutoSequence(writes)

-----------------------------------------------------------------------------
(* Properties of the 32-bit splitters *)

IsWord(x) == 0 <= x /\ x <= 65535

\* The pair <<hi, lo>> holds v in two's complement: hi * 65536 + lo is v for
\* v >= 0 and v + 2^32 for v < 0, which is written here without 2^32.
HoldsValue(pair, v) ==
    /\ IsWord(pair[1])
    /\ IsWord(pair[2])
    /\ IF v >= 0
       THEN pair[1] < 32768 /\ pair[1] * 65536 + pair[2] = v
       ELSE pair[1] >= 32768 /\ (pair[1] - 65536) * 65536 + pair[2] = v

\* C37: _split_s32(v) and _split_u32(v) return two 16-bit words hi, lo with
\* hi * 65536 + lo equal to v modulo 2^32, and the copies of sma_writer and
\* of battery_control return the same pair.
C37_SplitIsTwosComplement ==
    split.done =>
        /\ HoldsValue(split.writer, split.val)
        /\ HoldsValue(split.bc, split.val)
        /\ split.writer = split.bc

\* _split_s32(-2147483648) returned <<0x8000, 0>>.
C37_Witness ==
    /\ split.done
    /\ split.fn = "_split_s32"
    /\ split.val = -2147483647 - 1
    /\ split.writer = <<32768, 0>>

-----------------------------------------------------------------------------
(* Properties of the JSON-RPC client *)

\* The logins sent after the first POST of the call.
Relogins ==
    Cardinality({i \in 1..Len(rpc.log) :
                    /\ rpc.log[i].url = "login"
                    /\ \E k \in 1..(i - 1) : rpc.log[k].url = "services"})

\* C38: one call of _rpc_request logs in again at most once: when the
\* device answers 401 again after the second login succeeded, the call ends
\* with an error and sends no third login.
C38_AtMostOneRelogin ==
    rpc.pc # "none" => Relogins <= 1

====
